---------------------------- MODULE Spec2Model ----------------------------
(***************************************************************************)
(* Model of the ICS normalisation and merge engine of iso-calendars.       *)
(*                                                                         *)
(* A Python str is modelled as a sequence of tokens.  A token is either    *)
(* one character ("\r", "\n", " ", ";", ",", "\\", a digit, a letter) or a *)
(* literal the code looks for as a whole ("BEGIN:VEVENT", "UID:",          *)
(* "DTSTART", ...).  An Optional[str] is None (the empty tuple) or         *)
(* Some(s) (the one-element tuple holding s).                              *)
(***************************************************************************)
EXTENDS Integers, Sequences, FiniteSets, TLC

VARIABLES
    pc,           \* position of the run being modelled
    ics_text,     \* the text handed to a block scan (scan runs)
    mode,         \* which scan was applied to ics_text (scan runs)
    scanned,      \* the scan's return value (scan runs)
    iso,          \* which merge program runs: "nyiso" or "pjm" (merge runs)
    window,       \* <<start_yyyymmdd, end_yyyymmdd>> of the PJM run
    feed,         \* number of feeds the for loop over the feeds has taken
    vevents,      \* blocks extracted from the current feed
    ve_i,         \* index in vevents of the block the inner loop takes next
    seen_uids,    \* the set seen_uids
    all_vevents,  \* the list all_vevents
    vtimezone,    \* the NYISO run's vtimezone
    merged,       \* the document written, None before
    exit_code,    \* the run's exit status, -1 while running
    fetched,      \* history: per fetched feed, the events its text was made of
    raw,          \* the argument of ics_escape (escape runs)
    escaped,      \* what ics_escape returned, None before (escape runs)
    events,       \* the event objects of the API's answer (JSON runs)
    ev_i,         \* index in events of the object the loop takes next (JSON runs)
    feed_text,    \* the text the validator fetched for a feed (validator runs)
    verdict,      \* what the validator found for feed_text, None before
    today,        \* <<year, month>> of the clock date_range reads (window runs)
    months        \* args.months, the argument of date_range (window runs)

scanVars == <<ics_text, mode, scanned>>
mergeVars == <<iso, window, feed, vevents, ve_i, seen_uids, all_vevents,
               vtimezone, merged, exit_code, fetched>>
escapeVars == <<raw, escaped>>
jsonVars == <<events, ev_i>>
validateVars == <<feed_text, verdict>>
windowVars == <<today, months>>
vars == <<pc, scanVars, mergeVars, escapeVars, jsonVars, validateVars, windowVars>>

-----------------------------------------------------------------------------
(* Bounds of the model *)

\* most lines of a text handed to a block scan
MaxLines == 5

\* feeds a merge run fetches (the first ones of the program's list)
MaxFeeds == 2

\* most events in the feeds of one NYISO run, and of one PJM run
MaxNyisoEvents == 4
MaxPjmEvents == 2

\* longest text handed to ics_escape
MaxTextLen == 3

\* most event objects in an answer of the ISO-NE or SPP API
MaxJsonEvents == 2

\* most parts (event blocks, stray markers, timezone blocks) of a validated text
MaxParts == 3

\* most lines of a text that is parsed, built into a document and parsed again
MaxTripLines == 4

\* most objects of a CAISO or MISO listing, most months a MISO run asks for
MaxSingleEvents == 2
MaxMisoMonths == 2

\* most months ahead a window run asks for
MaxMonthsAhead == 25

-----------------------------------------------------------------------------
(* Python str and list primitives *)

None == <<>>
Some(s) == <<s>>

CR == "\r"
LF == "\n"
SP == " "
CRLF == <<CR, LF>>

\* characters str.strip() removes
Whitespace == {SP, CR, LF}

\* the concatenation of ss[lo], ..., ss[hi] (by halves, to keep the
\* evaluation shallow on long texts)
RECURSIVE ConcatRange(_, _, _)
ConcatRange(ss, lo, hi) ==
    IF lo > hi THEN <<>>
    ELSE IF lo = hi THEN ss[lo]
         ELSE LET mid == (lo + hi) \div 2
              IN  ConcatRange(ss, lo, mid) \o ConcatRange(ss, mid + 1, hi)

ConcatAll(ss) == ConcatRange(ss, 1, Len(ss))

\* where old occurs in s.  The patterns the code searches for ("\r\n", one
\* character, one literal) cannot overlap themselves, so these are also the
\* leftmost non-overlapping occurrences str.replace and str.split work on
Occurrences(s, old) ==
    { i \in 1..(Len(s) - Len(old) + 1) : SubSeq(s, i, i + Len(old) - 1) = old }

\* the elements of the set of numbers S in ascending order
Ascending(S) ==
    IF S = {} THEN <<>>
    ELSE LET hi == CHOOSE m \in S : \A k \in S : k <= m
         IN  SelectSeq([i \in 1..hi |-> i], LAMBDA i : i \in S)

\* s.replace(old, new)
Replace(s, old, new) ==
    LET occ == Occurrences(s, old)
    IN  ConcatAll([i \in 1..Len(s) |->
            IF i \in occ THEN new
            ELSE IF \E j \in occ : j < i /\ i < j + Len(old) THEN <<>>
                 ELSE <<s[i]>>])

\* s.find(sep) + 1: index of the first occurrence of sep in s, 0 if none
Find(s, sep) ==
    LET occ == Occurrences(s, sep)
    IN  IF occ = {} THEN 0 ELSE CHOOSE i \in occ : \A j \in occ : i <= j

\* s.split(sep): always at least one piece
Split(s, sep) ==
    LET at == Ascending(Occurrences(s, sep))
    IN  [k \in 1..(Len(at) + 1) |->
            SubSeq(s,
                   IF k = 1 THEN 1 ELSE at[k - 1] + Len(sep),
                   IF k > Len(at) THEN Len(s) ELSE at[k] - 1)]

\* sep.join(parts)
Join(parts, sep) ==
    ConcatAll([k \in 1..Len(parts) |-> IF k = 1 THEN parts[k] ELSE sep \o parts[k]])

RECURSIVE LStrip(_)
LStrip(s) == IF s # <<>> /\ s[1] \in Whitespace THEN LStrip(Tail(s)) ELSE s

RECURSIVE RStrip(_)
RStrip(s) ==
    IF s # <<>> /\ s[Len(s)] \in Whitespace THEN RStrip(SubSeq(s, 1, Len(s) - 1)) ELSE s

\* str.strip()
Strip(s) == RStrip(LStrip(s))

\* str.startswith(prefix)
StartsWith(s, prefix) ==
    Len(s) >= Len(prefix) /\ SubSeq(s, 1, Len(prefix)) = prefix

\* ics_text.replace("\r\n", "\n").replace("\r", "\n").split("\n")
SplitLines(text) == Split(Replace(Replace(text, CRLF, <<LF>>), <<CR>>, <<LF>>), <<LF>>)

-----------------------------------------------------------------------------
(* BlockParser: the three scans *)

BEGIN_VEVENT == <<"BEGIN:VEVENT">>
END_VEVENT == <<"END:VEVENT">>
BEGIN_VTIMEZONE == <<"BEGIN:VTIMEZONE">>
END_VTIMEZONE == <<"END:VTIMEZONE">>

\* the for loop of extract_vevents from line i on; st = [vevents, buf, inside]
RECURSIVE ScanAll(_, _, _)
ScanAll(lines, i, st) ==
    IF i > Len(lines) THEN st.vevents
    ELSE LET line == lines[i]
             begins == Strip(line) = BEGIN_VEVENT
             inside1 == IF begins THEN TRUE ELSE st.inside
             buf1 == IF begins THEN <<>> ELSE st.buf
             buf2 == IF inside1 THEN Append(buf1, line) ELSE buf1
             ends == inside1 /\ Strip(line) = END_VEVENT
         IN  ScanAll(lines, i + 1,
                     [vevents |-> IF ends THEN Append(st.vevents, Join(buf2, CRLF))
                                  ELSE st.vevents,
                      buf |-> buf2,
                      inside |-> IF ends THEN FALSE ELSE inside1])

\* a mutant of extract_vevents: the buffer is flushed when the text ends inside a block
ScanAllFlush(lines) ==
    LET RECURSIVE go(_, _)
        go(i, st) ==
            IF i > Len(lines)
            THEN IF st.inside THEN Append(st.vevents, Join(st.buf, CRLF)) ELSE st.vevents
            ELSE LET line == lines[i]
                     begins == Strip(line) = BEGIN_VEVENT
                     inside1 == IF begins THEN TRUE ELSE st.inside
                     buf1 == IF begins THEN <<>> ELSE st.buf
                     buf2 == IF inside1 THEN Append(buf1, line) ELSE buf1
                     ends == inside1 /\ Strip(line) = END_VEVENT
                 IN  go(i + 1,
                        [vevents |-> IF ends THEN Append(st.vevents, Join(buf2, CRLF))
                                     ELSE st.vevents,
                         buf |-> buf2,
                         inside |-> IF ends THEN FALSE ELSE inside1])
    IN  go(1, [vevents |-> <<>>, buf |-> <<>>, inside |-> FALSE])

\* a mutant of extract_vevents: lines are joined with a bare "\n"
extract_vevents_lfjoin(text) ==
    LET blocks == ScanAll(SplitLines(text), 1,
                          [vevents |-> <<>>, buf |-> <<>>, inside |-> FALSE])
    IN  [k \in 1..Len(blocks) |-> Replace(blocks[k], CRLF, <<LF>>)]

\* a mutant of extract_vevents: see ScanAllFlush
extract_vevents_flush(text) == ScanAllFlush(SplitLines(text))

\* extract_vevents (NYISO, PJM, ERCOT): every VEVENT block, in source order
extract_vevents(text) ==
    ScanAll(SplitLines(text), 1, [vevents |-> <<>>, buf |-> <<>>, inside |-> FALSE])

\* the for loop of extract_vevent / extract_vtimezone from line i on.  reset
\* tells whether a begin marker empties the buffer (extract_vtimezone) or
\* not (extract_vevent)
RECURSIVE ScanFirst(_, _, _, _, _, _, _)
ScanFirst(lines, i, buf, inside, begin, end, reset) ==
    IF i > Len(lines) THEN None
    ELSE LET line == lines[i]
             begins == Strip(line) = begin
             inside1 == IF begins THEN TRUE ELSE inside
             buf1 == IF begins /\ reset THEN <<>> ELSE buf
             buf2 == IF inside1 THEN Append(buf1, line) ELSE buf1
         IN  IF inside1 /\ Strip(line) = end
             THEN Some(Join(buf2, CRLF))
             ELSE ScanFirst(lines, i + 1, buf2, inside1, begin, end, reset)

\* extract_vevent (CAISO, MISO): the first VEVENT block, or None
extract_vevent(text) ==
    ScanFirst(SplitLines(text), 1, <<>>, FALSE, BEGIN_VEVENT, END_VEVENT, FALSE)

\* extract_vtimezone (NYISO): the first VTIMEZONE block, or None
extract_vtimezone(text) ==
    ScanFirst(SplitLines(text), 1, <<>>, FALSE, BEGIN_VTIMEZONE, END_VTIMEZONE, TRUE)


-----------------------------------------------------------------------------
(* Identity and start-date extraction, date window *)

Digits == <<"0", "1", "2", "3", "4", "5", "6", "7", "8", "9">>

IsDigit(c) == \E k \in 1..10 : Digits[k] = c

\* ord(c) of a digit character, relative to ord("0")
Ord(c) == (CHOOSE k \in 1..10 : Digits[k] = c) - 1

\* n written with w decimal digits, zero padded: strftime %Y (w = 4), %m, %d
ToDigits(n, w) == [i \in 1..w |-> Digits[((n \div (10 ^ (w - i))) % 10) + 1]]

\* a < b on str (lexicographic by character; the code compares digit strings)
RECURSIVE StrLess(_, _)
StrLess(a, b) ==
    IF b = <<>> THEN FALSE
    ELSE IF a = <<>> THEN TRUE
         ELSE IF a[1] = b[1] THEN StrLess(Tail(a), Tail(b))
              ELSE Ord(a[1]) < Ord(b[1])

\* a <= b on str
StrLessEq(a, b) == a = b \/ StrLess(a, b)

\* truthiness of an Optional[str]: neither None nor ""
Truthy(opt) == opt # None /\ opt[1] # <<>>

\* tokens that hold a colon
ColonTokens ==
    { ":", "UID:", "SEQUENCE:", "TZID:", "PRODID:", "X-WR-CALNAME:", "X-WR-TIMEZONE:",
      "BEGIN:VEVENT", "END:VEVENT", "BEGIN:VTIMEZONE", "END:VTIMEZONE",
      "BEGIN:VCALENDAR", "END:VCALENDAR", "VERSION:2.0", "CALSCALE:GREGORIAN",
      "METHOD:PUBLISH" }

\* the first line of lines, from the i-th on, that starts with "UID:",
\* without that prefix and stripped; None if there is none
RECURSIVE FirstUid(_, _)
FirstUid(lines, i) ==
    IF i > Len(lines) THEN None
    ELSE IF StartsWith(lines[i], <<"UID:">>)
         THEN Some(Strip(Tail(lines[i])))
         ELSE FirstUid(lines, i + 1)

\* extract_uid
extract_uid(vevent) == FirstUid(Split(vevent, CRLF), 1)

\* re.match(r"DTSTART[^:]*:(\d{8})", line): group 1, or None
MatchDtstart(line) ==
    IF ~StartsWith(line, <<"DTSTART">>) THEN None
    ELSE LET colons == { k \in 2..Len(line) : line[k] \in ColonTokens }
         IN  IF colons = {} THEN None
             ELSE LET c == CHOOSE k \in colons : \A j \in colons : k <= j
                  IN  IF /\ line[c] = ":"
                         /\ Len(line) >= c + 8
                         /\ \A j \in (c + 1)..(c + 8) : IsDigit(line[j])
                      THEN Some(SubSeq(line, c + 1, c + 8))
                      ELSE None

RECURSIVE FirstDtstart(_, _)
FirstDtstart(lines, i) ==
    IF i > Len(lines) THEN None
    ELSE IF MatchDtstart(lines[i]) # None THEN MatchDtstart(lines[i])
         ELSE FirstDtstart(lines, i + 1)

\* extract_dtstart_date
extract_dtstart_date(vevent) == FirstDtstart(Split(vevent, CRLF), 1)

\* a mutant of date_range: the year is advanced by month \div 12
date_range_nocarry(y, m, months_ahead) ==
    LET month0 == m + months_ahead
        year == y + (month0 \div 12)
        month == ((month0 - 1) % 12) + 1
    IN  << ToDigits(y, 4) \o ToDigits(m, 2) \o ToDigits(1, 2),
           ToDigits(year, 4) \o ToDigits(month, 2) \o ToDigits(1, 2) >>

\* date_range(months_ahead) on a day of month m of year y: the first day of
\* that month and of the month months_ahead later, as YYYYMMDD
date_range(y, m, months_ahead) ==
    LET month0 == m + months_ahead
        year == y + ((month0 - 1) \div 12)
        month == ((month0 - 1) % 12) + 1
    IN  << ToDigits(y, 4) \o ToDigits(m, 2) \o ToDigits(1, 2),
           ToDigits(year, 4) \o ToDigits(month, 2) \o ToDigits(1, 2) >>

\* fetch_ics_feed: None unless curl succeeded and sent a calendar
fetch_ics_feed(returncode, stdout) ==
    IF returncode # 0 \/ Find(stdout, <<"BEGIN:VCALENDAR">>) = 0 THEN None
    ELSE Some(stdout)

-----------------------------------------------------------------------------
(* DocumentBuilder *)

NyisoHeader ==
    << <<"BEGIN:VCALENDAR">>, <<"VERSION:2.0">>,
       <<"PRODID:", "-//NYISO Calendar Sync//EN">>, <<"CALSCALE:GREGORIAN">>,
       <<"METHOD:PUBLISH">>, <<"X-WR-CALNAME:", "NYISO Events">>,
       <<"X-WR-TIMEZONE:", "America/New_York">> >>

PjmHeader ==
    << <<"BEGIN:VCALENDAR">>, <<"VERSION:2.0">>,
       <<"PRODID:", "-//PJM Calendar Sync//EN">>, <<"CALSCALE:GREGORIAN">>,
       <<"METHOD:PUBLISH">>, <<"X-WR-CALNAME:", "PJM Events">>,
       <<"X-WR-TIMEZONE:", "America/New_York">> >>

Footer == <<"END:VCALENDAR">>

\* a mutant of build_merged_ics (NYISO): the timezone block goes after the events
build_merged_ics_nyiso_tzlast(blocks, tz) ==
    LET header == Join(NyisoHeader, CRLF)
        parts0 == <<header>> \o blocks
        parts1 == IF Truthy(tz) THEN Append(parts0, tz[1]) ELSE parts0
    IN  Join(Append(parts1, Footer), CRLF) \o CRLF

\* build_merged_ics of fetch_nyiso_calendar.py
build_merged_ics_nyiso(blocks, tz) ==
    LET header == Join(NyisoHeader, CRLF)
        parts0 == <<header>>
        parts1 == IF Truthy(tz) THEN Append(parts0, tz[1]) ELSE parts0
        parts2 == parts1 \o blocks
    IN  Join(Append(parts2, Footer), CRLF) \o CRLF

\* build_merged_ics of fetch_pjm_calendar.py
build_merged_ics_pjm(blocks) ==
    LET header == Join(PjmHeader, CRLF)
        body == Join(blocks, CRLF)
    IN  header \o CRLF \o body \o CRLF \o Footer \o CRLF

-----------------------------------------------------------------------------
(* The merge loops of fetch_nyiso_calendar.py and fetch_pjm_calendar.py *)

\* a mutant of nyiso_body: a block is kept whenever it has a UID
nyiso_body_nodedup(ve, seen, all) ==
    LET uid == extract_uid(ve)
    IN  IF Truthy(uid)
        THEN [seen |-> seen \cup {uid[1]}, all |-> Append(all, ve)]
        ELSE [seen |-> seen, all |-> all]

\* a mutant of nyiso_body: a block without UID is kept too
nyiso_body_keepanon(ve, seen, all) ==
    LET uid == extract_uid(ve)
    IN  IF ~Truthy(uid) THEN [seen |-> seen, all |-> Append(all, ve)]
        ELSE IF uid[1] \notin seen
             THEN [seen |-> seen \cup {uid[1]}, all |-> Append(all, ve)]
             ELSE [seen |-> seen, all |-> all]

\* one turn of NYISO's loop over vevents: seen_uids and all_vevents after it
nyiso_body(ve, seen, all) ==
    LET uid == extract_uid(ve)
    IN  IF Truthy(uid) /\ uid[1] \notin seen
        THEN [seen |-> seen \cup {uid[1]}, all |-> Append(all, ve)]
        ELSE [seen |-> seen, all |-> all]

\* a mutant of pjm_date_dropped: the window's end is taken as inclusive
pjm_date_dropped_incl(dtstart, start, end) ==
    Truthy(dtstart) /\ ~(StrLessEq(start, dtstart[1]) /\ StrLessEq(dtstart[1], end))

\* dtstart and not (start_yyyymmdd <= dtstart < end_yyyymmdd)
pjm_date_dropped(dtstart, start, end) ==
    Truthy(dtstart) /\ ~(StrLessEq(start, dtstart[1]) /\ StrLess(dtstart[1], end))

\* a mutant of pjm_body: the UID is recorded as seen before the date filter
pjm_body_seenfirst(ve, seen, all, start, end) ==
    LET uid == extract_uid(ve)
        dtstart == extract_dtstart_date(ve)
    IN  IF Truthy(uid) /\ uid[1] \notin seen
        THEN IF pjm_date_dropped(dtstart, start, end)
             THEN [seen |-> seen \cup {uid[1]}, all |-> all]
             ELSE [seen |-> seen \cup {uid[1]}, all |-> Append(all, ve)]
        ELSE [seen |-> seen, all |-> all]

\* one turn of PJM's loop over vevents: seen_uids and all_vevents after it
pjm_body(ve, seen, all, start, end) ==
    LET uid == extract_uid(ve)
        dtstart == extract_dtstart_date(ve)
    IN  IF Truthy(uid) /\ uid[1] \notin seen
        THEN IF pjm_date_dropped(dtstart, start, end)
             THEN [seen |-> seen, all |-> all]
             ELSE [seen |-> seen \cup {uid[1]}, all |-> Append(all, ve)]
        ELSE [seen |-> seen, all |-> all]

-----------------------------------------------------------------------------
(* Merge runs: the feeds a run fetches *)

\* the day the PJM run is made on (year, month) and the --months values tried
Today == <<2026, 12>>
PjmMonths == {0, 3}

NoDate == <<>>      \* an event without DTSTART line
BadDate == <<0>>    \* an event whose DTSTART line holds no eight digits

NyisoUids == <<"a", "b", "c">>
PjmDates ==
    { NoDate, BadDate, <<2026, 11, 30>>, <<2026, 12, 1>>, <<2027, 2, 28>>, <<2027, 3, 1>> }

\* what an event of a feed is made of: its UID ("" for no UID line) and its
\* start date; ord, its rank among the events of the run, makes its text unique
NyisoKinds == [uid : {NyisoUids[k] : k \in 1..3} \cup {""}, date : {NoDate}]
PjmKinds == [uid : {"a"}, date : PjmDates] \cup [uid : {"b", ""}, date : {<<2026, 12, 1>>}]

\* UIDs are named in the order they first come up in a run ("a", then "b",
\* then "c"): any other run is one of these with its UIDs renamed
InNamingOrder(es) ==
    \A i \in 1..Len(es) : \A k \in 2..3 :
        es[i].uid = NyisoUids[k] => \E j \in 1..(i - 1) : es[j].uid = NyisoUids[k - 1]

DtstartLine(date) ==
    IF date = NoDate THEN <<>>
    ELSE IF date = BadDate THEN << <<"DTSTART", ":", "TBD">> >>
    ELSE LET d8 == ToDigits(date[1], 4) \o ToDigits(date[2], 2) \o ToDigits(date[3], 2)
         IN  IF date[3] = 30
             THEN << <<"DTSTART", ";TZID=America/New_York", ":">> \o d8 \o <<"T090000">> >>
             ELSE IF date[3] = 28
                  THEN << <<"DTSTART", ";VALUE=DATE", ":">> \o d8 >>
                  ELSE << <<"DTSTART", ":">> \o d8 \o <<"T000000Z">> >>

\* the lines of an event's block
EventLines(e) ==
    <<BEGIN_VEVENT>>
    \o (IF e.uid = "" THEN <<>> ELSE << <<"UID:", e.uid>> >>)
    \o DtstartLine(e.date)
    \o << <<"SEQUENCE:", Digits[e.ord + 1]>>, END_VEVENT >>

\* the block of an event, as it stands in a feed
Block(e) == Join(EventLines(e), CRLF)

\* the timezone block of the n-th feed
FeedTimezone(n) == <<BEGIN_VTIMEZONE, <<"TZID:", Digits[n + 1]>>, END_VTIMEZONE>>

\* a timezone block of the n-th feed that is not terminated
OpenTimezone(n) == <<BEGIN_VTIMEZONE, <<"TZID:", Digits[n + 1]>> >>

\* the timezone parts the n-th feed may have: none, a terminated block, and
\* for the first feed a block that is not terminated
TimezoneParts(n) ==
    {<<>>, FeedTimezone(n)} \cup (IF n = 1 THEN {OpenTimezone(n)} ELSE {})

\* the text of a feed: a calendar of the given events, with or without the
\* feed's timezone block
FeedText(es, tz) ==
    Join(<< <<"BEGIN:VCALENDAR">>, <<"VERSION:2.0">> >>
         \o tz
         \o ConcatAll([k \in 1..Len(es) |-> EventLines(es[k])])
         \o << <<"END:VCALENDAR">> >>,
         CRLF) \o CRLF

\* events number base + 1 .. base + n of a run, of the given kinds
EventLists(kinds, base, most) ==
    UNION { { [k \in 1..n |-> [uid |-> ks[k].uid, date |-> ks[k].date, ord |-> base + k]] :
                ks \in [1..n -> kinds] } : n \in 0..most }

\* answers of curl that fetch_ics_feed turns down
FailedFetches ==
    { [returncode |-> 1, stdout |-> <<>>, events |-> <<>>],
      [returncode |-> 0, stdout |-> <<"<html>">>, events |-> <<>>] }

Flat(fs) == ConcatAll(fs)

MergeIdle ==
    /\ iso = "none"
    /\ window = << <<>>, <<>> >>
    /\ feed = 0
    /\ vevents = <<>>
    /\ ve_i = 1
    /\ seen_uids = {}
    /\ all_vevents = <<>>
    /\ vtimezone = None
    /\ merged = None
    /\ exit_code = -1
    /\ fetched = <<>>

ScanIdle ==
    /\ ics_text = <<>>
    /\ mode = "none"
    /\ scanned = None

EscapeIdle ==
    /\ raw = <<>>
    /\ escaped = None

JsonIdle ==
    /\ events = <<>>
    /\ ev_i = 1

ValidateIdle ==
    /\ feed_text = <<>>
    /\ verdict = None

WindowIdle ==
    /\ today = <<>>
    /\ months = 0

MergeInit ==
    /\ pc = "merge"
    /\ ScanIdle
    /\ EscapeIdle
    /\ JsonIdle
    /\ ValidateIdle
    /\ WindowIdle
    /\ iso \in {"nyiso", "pjm"}
    /\ window \in IF iso = "pjm"
                  THEN { date_range(Today[1], Today[2], k) : k \in PjmMonths }
                  ELSE { << <<>>, <<>> >> }
    /\ feed = 0
    /\ vevents = <<>>
    /\ ve_i = 1
    /\ seen_uids = {}
    /\ all_vevents = <<>>
    /\ vtimezone = None
    /\ merged = None
    /\ exit_code = -1
    /\ fetched = <<>>

\* a mutant of NyisoFetch: a later feed's timezone block replaces the one held
NyisoFetch_latest ==
    /\ pc = "merge" /\ iso = "nyiso"
    /\ feed < MaxFeeds /\ ve_i > Len(vevents)
    /\ \E inp \in FailedFetches \cup
            { [returncode |-> 0, stdout |-> FeedText(es, tz), events |-> es] :
                es \in { l \in EventLists(NyisoKinds, Len(Flat(fetched)),
                                          MaxNyisoEvents - Len(Flat(fetched))) :
                           InNamingOrder(Flat(fetched) \o l) },
                tz \in TimezoneParts(feed + 1) } :
          LET text == fetch_ics_feed(inp.returncode, inp.stdout)
          IN  IF ~Truthy(text)
              THEN ics_text' = <<>> /\ UNCHANGED <<vtimezone, vevents, ve_i, fetched>>
              ELSE /\ ics_text' = text[1]
                   /\ vtimezone' = IF extract_vtimezone(text[1]) # None
                                   THEN extract_vtimezone(text[1])
                                   ELSE vtimezone
                   /\ vevents' = extract_vevents(text[1])
                   /\ ve_i' = 1
                   /\ fetched' = Append(fetched, inp.events)
    /\ feed' = feed + 1
    /\ UNCHANGED <<pc, mode, scanned, escapeVars, jsonVars, validateVars, windowVars,
                   iso, window, seen_uids, all_vevents, merged, exit_code>>

\* NYISO, lines 116-125: the next feed is fetched into ics_text (empty for
\* None); a failed fetch is skipped,
\* else the timezone block is taken if none is held and the blocks extracted
NyisoFetch ==
    /\ pc = "merge" /\ iso = "nyiso"
    /\ feed < MaxFeeds /\ ve_i > Len(vevents)
    /\ \E inp \in FailedFetches \cup
            { [returncode |-> 0, stdout |-> FeedText(es, tz), events |-> es] :
                es \in { l \in EventLists(NyisoKinds, Len(Flat(fetched)),
                                          MaxNyisoEvents - Len(Flat(fetched))) :
                           InNamingOrder(Flat(fetched) \o l) },
                tz \in TimezoneParts(feed + 1) } :
          LET text == fetch_ics_feed(inp.returncode, inp.stdout)
          IN  IF ~Truthy(text)
              THEN ics_text' = <<>> /\ UNCHANGED <<vtimezone, vevents, ve_i, fetched>>
              ELSE /\ ics_text' = text[1]
                   /\ vtimezone' = IF vtimezone = None THEN extract_vtimezone(text[1])
                                   ELSE vtimezone
                   /\ vevents' = extract_vevents(text[1])
                   /\ ve_i' = 1
                   /\ fetched' = Append(fetched, inp.events)
    /\ feed' = feed + 1
    /\ UNCHANGED <<pc, mode, scanned, escapeVars, jsonVars, validateVars, windowVars,
                   iso, window, seen_uids, all_vevents, merged, exit_code>>

\* NYISO, lines 126-131: one turn of the loop over the feed's blocks
NyisoStep ==
    /\ pc = "merge" /\ iso = "nyiso"
    /\ ve_i <= Len(vevents)
    /\ LET r == nyiso_body(vevents[ve_i], seen_uids, all_vevents)
       IN  seen_uids' = r.seen /\ all_vevents' = r.all
    /\ ve_i' = ve_i + 1
    /\ UNCHANGED <<pc, scanVars, escapeVars, jsonVars, validateVars, windowVars,
                   iso, window, feed, vevents, vtimezone, merged,
                   exit_code, fetched>>

\* NYISO, lines 134-140: no event, exit status 1; else the document is written
NyisoFinish ==
    /\ pc = "merge" /\ iso = "nyiso"
    /\ feed = MaxFeeds /\ ve_i > Len(vevents)
    /\ IF all_vevents = <<>>
       THEN pc' = "exit" /\ exit_code' = 1 /\ UNCHANGED merged
       ELSE /\ pc' = "written"
            /\ merged' = Some(build_merged_ics_nyiso(all_vevents, vtimezone))
            /\ exit_code' = 0
    /\ UNCHANGED <<scanVars, escapeVars, jsonVars, validateVars, windowVars,
                   iso, window, feed, vevents, ve_i, seen_uids, all_vevents,
                   vtimezone, fetched>>

\* PJM, lines 123-131: the next feed is fetched into ics_text (empty for
\* None); a failed fetch is skipped,
\* else the blocks are extracted
PjmFetch ==
    /\ pc = "merge" /\ iso = "pjm"
    /\ feed < MaxFeeds /\ ve_i > Len(vevents)
    /\ \E inp \in FailedFetches \cup
            { [returncode |-> 0, stdout |-> FeedText(es, <<>>), events |-> es] :
                es \in EventLists(PjmKinds, Len(Flat(fetched)),
                                  MaxPjmEvents - Len(Flat(fetched))) } :
          LET text == fetch_ics_feed(inp.returncode, inp.stdout)
          IN  IF ~Truthy(text)
              THEN ics_text' = <<>> /\ UNCHANGED <<vevents, ve_i, fetched>>
              ELSE /\ ics_text' = text[1]
                   /\ vevents' = extract_vevents(text[1])
                   /\ ve_i' = 1
                   /\ fetched' = Append(fetched, inp.events)
    /\ feed' = feed + 1
    /\ UNCHANGED <<pc, mode, scanned, escapeVars, jsonVars, validateVars, windowVars,
                   iso, window, seen_uids, all_vevents, vtimezone,
                   merged, exit_code>>

\* PJM, lines 132-140: one turn of the loop over the feed's blocks
PjmStep ==
    /\ pc = "merge" /\ iso = "pjm"
    /\ ve_i <= Len(vevents)
    /\ LET r == pjm_body(vevents[ve_i], seen_uids, all_vevents, window[1], window[2])
       IN  seen_uids' = r.seen /\ all_vevents' = r.all
    /\ ve_i' = ve_i + 1
    /\ UNCHANGED <<pc, scanVars, escapeVars, jsonVars, validateVars, windowVars,
                   iso, window, feed, vevents, vtimezone, merged,
                   exit_code, fetched>>

\* PJM, lines 143-149: no event, exit status 1; else the document is written
PjmFinish ==
    /\ pc = "merge" /\ iso = "pjm"
    /\ feed = MaxFeeds /\ ve_i > Len(vevents)
    /\ IF all_vevents = <<>>
       THEN pc' = "exit" /\ exit_code' = 1 /\ UNCHANGED merged
       ELSE /\ pc' = "written"
            /\ merged' = Some(build_merged_ics_pjm(all_vevents))
            /\ exit_code' = 0
    /\ UNCHANGED <<scanVars, escapeVars, jsonVars, validateVars, windowVars,
                   iso, window, feed, vevents, ve_i, seen_uids, all_vevents,
                   vtimezone, fetched>>

MergeNext ==
    \/ NyisoFetch \/ NyisoStep \/ NyisoFinish
    \/ PjmFetch \/ PjmStep \/ PjmFinish

SpecMerge == MergeInit /\ [][MergeNext]_vars

-----------------------------------------------------------------------------
(* Escaping *)

BS == "\\"

\* a mutant of ics_escape: the backslash is escaped last
ics_escape_bslast(t) ==
    Replace(Replace(Replace(Replace(t, <<";">>, <<BS, ";">>),
                            <<",">>, <<BS, ",">>),
                    <<LF>>, <<BS, "n">>),
            <<BS>>, <<BS, BS>>)

\* ics_escape (ISO-NE, SPP)
ics_escape(t) ==
    Replace(Replace(Replace(Replace(t, <<BS>>, <<BS, BS>>),
                            <<";">>, <<BS, ";">>),
                    <<",">>, <<BS, ",">>),
            <<LF>>, <<BS, "n">>)

\* characters of the texts handed to ics_escape
EscapeAlphabet == {BS, ";", ",", LF, "n", "x"}

EscapeTexts == UNION { [1..n -> EscapeAlphabet] : n \in 0..MaxTextLen }

EscapeInit ==
    /\ pc = "escape"
    /\ raw \in EscapeTexts
    /\ escaped = None
    /\ ScanIdle
    /\ MergeIdle
    /\ JsonIdle
    /\ ValidateIdle
    /\ WindowIdle

IcsEscape ==
    /\ pc = "escape"
    /\ pc' = "escaped"
    /\ escaped' = Some(ics_escape(raw))
    /\ UNCHANGED <<raw, scanVars, mergeVars, jsonVars, validateVars, windowVars>>

EscapeNext == IcsEscape

SpecEscape == EscapeInit /\ [][EscapeNext]_vars

-----------------------------------------------------------------------------
(* JSON values and the event adapters of fetch_isone_calendar.py and
   fetch_spp_calendar.py *)

\* a JSON value as json.loads gives it: a str, an int or None; Absent stands
\* for a key the object does not have
Str(s) == [t |-> "str", v |-> s]
IntVal(digits) == [t |-> "int", v |-> digits]
Null == [t |-> "null", v |-> <<>>]
Absent == [t |-> "absent", v |-> <<>>]

\* event.get(key, default)
Get(event, key, default) == IF event[key].t = "absent" THEN default ELSE event[key]

\* bool(val)
Truth(val) ==
    CASE val.t = "str" -> val.v # <<>>
      [] val.t = "int" -> val.v # <<"0">>
      [] OTHER -> FALSE

\* val or ""
OrEmpty(val) == IF Truth(val) THEN val ELSE Str(<<>>)

\* f"{val}"
Format(val) == IF val.t = "null" THEN <<"None">> ELSE val.v

ISONE_BASE == <<"https://www.iso-ne.com">>
SPP_BASE == <<"https://www.spp.org">>

\* re.sub(r"\n{3,}", "\n\n", t): of a run of newlines the first two stay
CollapseNewlines(t) ==
    LET drop == { i \in 3..Len(t) : t[i] = LF /\ t[i - 1] = LF /\ t[i - 2] = LF }
    IN  ConcatAll([i \in 1..Len(t) |-> IF i \in drop THEN <<>> ELSE <<t[i]>>])

\* the tags r"<br\s*/?>" matches, ignoring case, among the tags of the texts
BrTags == {"<br>", "<br/>", "<BR />"}
\* the other tags of the texts, matched by r"<[^>]+>"
OtherTags == {"<p>", "</p>"}

\* strip_html (ISO-NE)
strip_html(html) ==
    LET t1 == [i \in 1..Len(html) |-> IF html[i] \in BrTags THEN LF ELSE html[i]]
        t2 == SelectSeq(t1, LAMBDA c : c \notin OtherTags)
        t3 == Replace(t2, <<"&amp;">>, <<"&">>)
        t4 == CollapseNewlines(t3)
    IN  Strip(t4)

\* s.replace("-", "").replace(":", "").replace("T", "T")
CompactStamp(s) ==
    Replace(Replace(Replace(s, <<"-">>, <<>>), <<":">>, <<>>), <<"T">>, <<"T">>)

\* what build_vevent gives: a value, or an exception raised
Returned(val) == [raised |-> FALSE, value |-> val]
Raised == [raised |-> TRUE, value |-> <<>>]

\* a mutant of build_vevent_isone: the parts of the description are escaped
\* one by one and joined afterwards
build_vevent_isone_lateprefix(event, now) ==
    LET eid == Get(event, "event_id", Str(<<>>))
        title == Get(event, "event_title", Str(<<"ISO-NE Event">>))
        start_str == Get(event, "event_start_date_gmt_str", Str(<<>>))
        end_str == Get(event, "event_end_date_gmt_str", Str(<<>>))
        location == OrEmpty(Get(event, "location", Str(<<>>)))
        contact == OrEmpty(Get(event, "contact_name", Str(<<>>)))
        contact_email == OrEmpty(Get(event, "contact_email", Str(<<>>)))
        cancelled == Get(event, "cancelled_flag", Str(<<"N">>)) = Str(<<"Y">>)
        description_html == OrEmpty(Get(event, "event_description", Str(<<>>)))
        dtstart == CompactStamp(start_str.v) \o <<"Z">>
        dtend == IF Truth(end_str) THEN Some(CompactStamp(end_str.v) \o <<"Z">>) ELSE None
        plain_desc == strip_html(description_html.v)
        link == ISONE_BASE \o <<"/event-details?eventId=">> \o Format(eid)
        contact_line == <<"Contact: ">> \o contact.v \o
                        (IF Truth(contact_email)
                         THEN <<" (">> \o contact_email.v \o <<")">> ELSE <<>>)
        desc_parts == (IF cancelled THEN << <<"** CANCELLED **">> >> ELSE <<>>) \o
                      (IF plain_desc # <<>> THEN <<plain_desc>> ELSE <<>>) \o
                      (IF Truth(contact) THEN <<contact_line>> ELSE <<>>) \o
                      <<link>>
        summary == IF cancelled THEN <<"[CANCELLED] ">> \o title.v ELSE title.v
        lines == << BEGIN_VEVENT,
                    <<"UID:">> \o Format(eid) \o <<"@iso-ne.com">>,
                    <<"DTSTAMP:">> \o now,
                    <<"DTSTART", ":">> \o dtstart >> \o
                 (IF Truthy(dtend) THEN << <<"DTEND", ":">> \o dtend[1] >> ELSE <<>>) \o
                 << <<"SUMMARY:">> \o ics_escape(summary) >> \o
                 (IF Truth(location)
                  THEN << <<"LOCATION:">> \o ics_escape(location.v) >> ELSE <<>>) \o
                 << <<"DESCRIPTION:">> \o Join([k \in 1..Len(desc_parts) |->
                                                ics_escape(desc_parts[k])], <<LF>>),
                    <<"URL:">> \o link,
                    END_VEVENT >>
    IN  IF ~Truth(start_str) \/ ~Truth(eid) THEN Returned(None)
        ELSE IF start_str.t # "str" \/ title.t # "str" THEN Raised
             ELSE Returned(Some(Join(lines, CRLF)))

\* build_vevent of fetch_isone_calendar.py; now is the DTSTAMP clock reading
build_vevent_isone(event, now) ==
    LET eid == Get(event, "event_id", Str(<<>>))
        title == Get(event, "event_title", Str(<<"ISO-NE Event">>))
        start_str == Get(event, "event_start_date_gmt_str", Str(<<>>))
        end_str == Get(event, "event_end_date_gmt_str", Str(<<>>))
        location == OrEmpty(Get(event, "location", Str(<<>>)))
        contact == OrEmpty(Get(event, "contact_name", Str(<<>>)))
        contact_email == OrEmpty(Get(event, "contact_email", Str(<<>>)))
        cancelled == Get(event, "cancelled_flag", Str(<<"N">>)) = Str(<<"Y">>)
        description_html == OrEmpty(Get(event, "event_description", Str(<<>>)))
        dtstart == CompactStamp(start_str.v) \o <<"Z">>
        dtend == IF Truth(end_str) THEN Some(CompactStamp(end_str.v) \o <<"Z">>) ELSE None
        plain_desc == strip_html(description_html.v)
        link == ISONE_BASE \o <<"/event-details?eventId=">> \o Format(eid)
        contact_line == <<"Contact: ">> \o contact.v \o
                        (IF Truth(contact_email)
                         THEN <<" (">> \o contact_email.v \o <<")">> ELSE <<>>)
        desc_parts == (IF cancelled THEN << <<"** CANCELLED **">> >> ELSE <<>>) \o
                      (IF plain_desc # <<>> THEN <<plain_desc>> ELSE <<>>) \o
                      (IF Truth(contact) THEN <<contact_line>> ELSE <<>>) \o
                      <<link>>
        summary == IF cancelled THEN <<"[CANCELLED] ">> \o title.v ELSE title.v
        lines == << BEGIN_VEVENT,
                    <<"UID:">> \o Format(eid) \o <<"@iso-ne.com">>,
                    <<"DTSTAMP:">> \o now,
                    <<"DTSTART", ":">> \o dtstart >> \o
                 (IF Truthy(dtend) THEN << <<"DTEND", ":">> \o dtend[1] >> ELSE <<>>) \o
                 << <<"SUMMARY:">> \o ics_escape(summary) >> \o
                 (IF Truth(location)
                  THEN << <<"LOCATION:">> \o ics_escape(location.v) >> ELSE <<>>) \o
                 << <<"DESCRIPTION:">> \o ics_escape(Join(desc_parts, <<LF>>)),
                    <<"URL:">> \o link,
                    END_VEVENT >>
    IN  IF ~Truth(start_str) \/ ~Truth(eid) THEN Returned(None)
        ELSE IF start_str.t # "str" \/ title.t # "str" THEN Raised
             ELSE Returned(Some(Join(lines, CRLF)))

\* parse_dt (SPP)
parse_dt(dt_str) == CompactStamp(Split(dt_str, <<".">>)[1])

\* build_vevent of fetch_spp_calendar.py; now is the DTSTAMP clock reading
build_vevent_spp(event, now) ==
    LET eid == event["id"]
        title == Get(event, "title", Str(<<"SPP Event">>))
        alt_title == Get(event, "alternateTitle", Str(<<>>))
        start == Get(event, "start", Str(<<>>))
        end == Get(event, "end", Str(<<>>))
        location_parts == << Get(event, "location", Str(<<>>)),
                             Get(event, "city", Str(<<>>)),
                             Get(event, "state", Str(<<>>)) >>
        kept_parts == SelectSeq(location_parts, Truth)
        location == Join([k \in 1..Len(kept_parts) |-> kept_parts[k].v], <<",", SP>>)
        url0 == Get(event, "url", Str(<<>>))
        url == IF Truth(url0) /\ ~StartsWith(url0.v, <<"http">>)
               THEN SPP_BASE \o url0.v ELSE url0.v
        dtstart == IF Truth(start) THEN Some(parse_dt(start.v)) ELSE None
        dtend == IF Truth(end) THEN Some(parse_dt(end.v)) ELSE None
        lines == << BEGIN_VEVENT,
                    <<"UID:">> \o Format(eid) \o <<"@spp.org">>,
                    <<"DTSTAMP:">> \o now,
                    <<"DTSTART", ";TZID=America/Chicago", ":">> \o dtstart[1] >> \o
                 (IF Truthy(dtend)
                  THEN << <<"DTEND", ";TZID=America/Chicago", ":">> \o dtend[1] >>
                  ELSE <<>>) \o
                 << <<"SUMMARY:">> \o ics_escape(title.v) >> \o
                 (IF Truth(alt_title) /\ alt_title # title
                  THEN << <<"DESCRIPTION:">> \o ics_escape(alt_title.v) >> ELSE <<>>) \o
                 (IF location # <<>>
                  THEN << <<"LOCATION:">> \o ics_escape(location) >> ELSE <<>>) \o
                 (IF url # <<>> THEN << <<"URL:">> \o url >> ELSE <<>>) \o
                 << END_VEVENT >>
    IN  IF eid.t = "absent" THEN Raised
        ELSE IF ~Truthy(dtstart) THEN Returned(<<>>)
             ELSE IF title.t # "str" THEN Raised
                  ELSE Returned(Join(lines, CRLF))

IsoneHeader ==
    << <<"BEGIN:VCALENDAR">>, <<"VERSION:2.0">>,
       <<"PRODID:", "-//ISO-NE Calendar Sync//EN">>, <<"CALSCALE:GREGORIAN">>,
       <<"METHOD:PUBLISH">>, <<"X-WR-CALNAME:", "ISO-NE Events">>,
       <<"X-WR-TIMEZONE:", "America/New_York">> >>

SppHeader ==
    << <<"BEGIN:VCALENDAR">>, <<"VERSION:2.0">>,
       <<"PRODID:", "-//SPP Calendar Sync//EN">>, <<"CALSCALE:GREGORIAN">>,
       <<"METHOD:PUBLISH">>, <<"X-WR-CALNAME:", "SPP Events">>,
       <<"X-WR-TIMEZONE:", "America/Chicago">>,
       BEGIN_VTIMEZONE, <<"TZID:", "America/Chicago">>,
       <<"BEGIN:STANDARD">>,
       <<"DTSTART", ":", "1", "9", "7", "0", "1", "1", "0", "1", "T020000">>,
       <<"RRULE:", "FREQ=YEARLY;BYMONTH=11;BYDAY=1SU">>,
       <<"TZOFFSETFROM:", "-0500">>, <<"TZOFFSETTO:", "-0600">>, <<"TZNAME:", "CST">>,
       <<"END:STANDARD">>,
       <<"BEGIN:DAYLIGHT">>,
       <<"DTSTART", ":", "1", "9", "7", "0", "0", "3", "0", "8", "T020000">>,
       <<"RRULE:", "FREQ=YEARLY;BYMONTH=3;BYDAY=2SU">>,
       <<"TZOFFSETFROM:", "-0600">>, <<"TZOFFSETTO:", "-0500">>, <<"TZNAME:", "CDT">>,
       <<"END:DAYLIGHT">>,
       END_VTIMEZONE >>

\* build_merged_ics of fetch_isone_calendar.py
build_merged_ics_isone(blocks) ==
    LET header == Join(IsoneHeader, CRLF)
        body == Join(blocks, CRLF)
    IN  header \o CRLF \o body \o CRLF \o Footer \o CRLF

\* build_merged_ics of fetch_spp_calendar.py
build_merged_ics_spp(blocks) ==
    LET header == Join(SppHeader, CRLF)
        body == Join(blocks, CRLF)
    IN  header \o CRLF \o body \o CRLF \o Footer \o CRLF

-----------------------------------------------------------------------------
(* JSON runs: main of fetch_isone_calendar.py and of fetch_spp_calendar.py *)

StartStamp ==
    <<"2", "0", "2", "6", "-", "1", "2", "-", "0", "1", "T",
      "0", "8", ":", "3", "0", ":", "0", "0">>
EndStamp ==
    <<"2", "0", "2", "6", "-", "1", "2", "-", "0", "1", "T",
      "0", "9", ":", "0", "0", ":", "0", "0">>
Fraction == <<".", "0", "0", "0">>

\* readings of the clock that stamps DTSTAMP
Stamps == { <<"20261104T120000Z">> }

\* identity and start values of the objects the APIs answer with
JsonIds == {Absent, Null, Str(<<>>), IntVal(<<"7">>)}
JsonStarts == {Absent, Null, Str(<<>>), Str(StartStamp), Str(StartStamp \o Fraction)}

DescriptionHtml ==
    <<"<p>", "x", "<br>", "<br/>", "<BR />", LF, "y", ";", "&amp;", "</p>", LF>>

IsoneEvent ==
    [ event_id |-> IntVal(<<"7">>),
      event_title |-> Str(<<"Markets", ",", SP, "x">>),
      event_start_date_gmt_str |-> Str(StartStamp),
      event_end_date_gmt_str |-> Str(EndStamp),
      location |-> Null,
      contact_name |-> Str(<<"Pat">>),
      contact_email |-> Str(<<"pat@iso-ne.com">>),
      cancelled_flag |-> Str(<<"N">>),
      event_description |-> Str(DescriptionHtml) ]

IsoneKinds ==
    { [IsoneEvent EXCEPT !.event_id = i, !.event_start_date_gmt_str = s] :
        i \in JsonIds, s \in JsonStarts }
    \cup { [IsoneEvent EXCEPT !.cancelled_flag = c, !.event_description = d] :
             c \in {Absent, Str(<<"Y">>)}, d \in {Absent, Str(DescriptionHtml)} }
    \cup { [IsoneEvent EXCEPT !.event_end_date_gmt_str = Absent, !.event_title = Absent,
                              !.location = Str(<<"Holyoke", ",", SP, "MA">>),
                              !.contact_email = Null],
           [IsoneEvent EXCEPT !.contact_name = Null] }

SppEvent ==
    [ id |-> IntVal(<<"7">>),
      title |-> Str(<<"Board", ";", SP, "x">>),
      alternateTitle |-> Str(<<"Quarterly", LF, "meeting">>),
      start |-> Str(StartStamp \o Fraction),
      end |-> Str(EndStamp \o Fraction),
      location |-> Str(<<"Room", SP, "1">>),
      city |-> Str(<<"Little Rock">>),
      state |-> Str(<<"AR">>),
      url |-> Str(<<"/events/", "7">>),
      fullSchedule |-> Absent ]

SppKinds ==
    { [SppEvent EXCEPT !.id = i, !.start = s] : i \in JsonIds, s \in JsonStarts }
    \cup { [SppEvent EXCEPT !.alternateTitle = SppEvent.title, !.end = Absent,
                            !.url = Str(<<"http", "s://spp.org/e">>)],
           [SppEvent EXCEPT !.title = Absent, !.alternateTitle = Absent,
                            !.location = Null, !.city = Str(<<>>), !.state = Absent,
                            !.url = Absent] }

\* the lists of at most MaxJsonEvents objects of the given kinds
JsonLists(kinds) == UNION { [1..n -> kinds] : n \in 0..MaxJsonEvents }

\* what curl answers: its status; whether stdout parses as JSON; for ISO-NE
\* whether the object has the key "events"; the list of event objects
Answers(kinds) ==
    { [returncode |-> 1, parses |-> FALSE, has_events |-> FALSE, events |-> <<>>],
      [returncode |-> 0, parses |-> FALSE, has_events |-> FALSE, events |-> <<>>],
      [returncode |-> 0, parses |-> TRUE, has_events |-> FALSE, events |-> <<>>] }
    \cup { [returncode |-> 0, parses |-> TRUE, has_events |-> TRUE, events |-> es] :
             es \in JsonLists(kinds) }

JsonInit ==
    /\ pc = "json"
    /\ iso \in {"isone", "spp"}
    /\ events = <<>>
    /\ ev_i = 1
    /\ window = << <<>>, <<>> >>
    /\ feed = 0
    /\ vevents = <<>>
    /\ ve_i = 1
    /\ seen_uids = {}
    /\ all_vevents = <<>>
    /\ vtimezone = None
    /\ merged = None
    /\ exit_code = -1
    /\ fetched = <<>>
    /\ ScanIdle
    /\ EscapeIdle
    /\ ValidateIdle
    /\ WindowIdle

\* ISO-NE, lines 137-151: curl, json.loads, data.get("events", []), the
\* exit when there is no event
IsoneFetch ==
    /\ pc = "json" /\ iso = "isone"
    /\ \E inp \in Answers(IsoneKinds) :
          IF inp.returncode # 0
          THEN pc' = "exit" /\ exit_code' = 1 /\ UNCHANGED events
          ELSE IF ~inp.parses
               THEN pc' = "crashed" /\ exit_code' = 1 /\ UNCHANGED events
               ELSE LET evs == IF inp.has_events THEN inp.events ELSE <<>>
                    IN  /\ events' = evs
                        /\ IF evs = <<>>
                           THEN pc' = "exit" /\ exit_code' = 0
                           ELSE pc' = "build" /\ UNCHANGED exit_code
    /\ UNCHANGED <<scanVars, escapeVars, validateVars, windowVars,
                   ev_i, iso, window, feed, vevents, ve_i, seen_uids,
                   all_vevents, vtimezone, merged, fetched>>

\* ISO-NE, lines 154-157: one turn of the loop over events
IsoneStep ==
    /\ pc = "build" /\ iso = "isone"
    /\ ev_i <= Len(events)
    /\ \E now \in Stamps :
          LET vevent == build_vevent_isone(events[ev_i], now)
          IN  IF vevent.raised
              THEN pc' = "crashed" /\ exit_code' = 1 /\ UNCHANGED <<vevents, ev_i>>
              ELSE /\ vevents' = IF Truthy(vevent.value)
                                 THEN Append(vevents, vevent.value[1]) ELSE vevents
                   /\ ev_i' = ev_i + 1
                   /\ UNCHANGED <<pc, exit_code>>
    /\ UNCHANGED <<scanVars, escapeVars, validateVars, windowVars,
                   events, iso, window, feed, ve_i, seen_uids,
                   all_vevents, vtimezone, merged, fetched>>

\* ISO-NE, lines 159-165: no event built, exit status 1; else the document
\* is written
IsoneFinish ==
    /\ pc = "build" /\ iso = "isone"
    /\ ev_i > Len(events)
    /\ IF vevents = <<>>
       THEN pc' = "exit" /\ exit_code' = 1 /\ UNCHANGED merged
       ELSE /\ pc' = "written"
            /\ merged' = Some(build_merged_ics_isone(vevents))
            /\ exit_code' = 0
    /\ UNCHANGED <<scanVars, escapeVars, validateVars, windowVars,
                   events, ev_i, iso, window, feed, vevents, ve_i,
                   seen_uids, all_vevents, vtimezone, fetched>>

\* SPP, lines 135-147: curl, json.loads, the exit when there is no event
SppFetch ==
    /\ pc = "json" /\ iso = "spp"
    /\ \E inp \in { a \in Answers(SppKinds) : a.parses => a.has_events } :
          IF inp.returncode # 0
          THEN pc' = "exit" /\ exit_code' = 1 /\ UNCHANGED events
          ELSE IF ~inp.parses
               THEN pc' = "crashed" /\ exit_code' = 1 /\ UNCHANGED events
               ELSE /\ events' = inp.events
                    /\ IF inp.events = <<>>
                       THEN pc' = "exit" /\ exit_code' = 0
                       ELSE pc' = "build" /\ UNCHANGED exit_code
    /\ UNCHANGED <<scanVars, escapeVars, validateVars, windowVars,
                   ev_i, iso, window, feed, vevents, ve_i, seen_uids,
                   all_vevents, vtimezone, merged, fetched>>

\* SPP, lines 150-153: one turn of the loop over events
SppStep ==
    /\ pc = "build" /\ iso = "spp"
    /\ ev_i <= Len(events)
    /\ \E now \in Stamps :
          LET vevent == build_vevent_spp(events[ev_i], now)
          IN  IF vevent.raised
              THEN pc' = "crashed" /\ exit_code' = 1 /\ UNCHANGED <<vevents, ev_i>>
              ELSE /\ vevents' = IF vevent.value # <<>>
                                 THEN Append(vevents, vevent.value) ELSE vevents
                   /\ ev_i' = ev_i + 1
                   /\ UNCHANGED <<pc, exit_code>>
    /\ UNCHANGED <<scanVars, escapeVars, validateVars, windowVars,
                   events, iso, window, feed, ve_i, seen_uids,
                   all_vevents, vtimezone, merged, fetched>>

\* SPP, lines 155-161: no event built, exit status 1; else the document is
\* written
SppFinish ==
    /\ pc = "build" /\ iso = "spp"
    /\ ev_i > Len(events)
    /\ IF vevents = <<>>
       THEN pc' = "exit" /\ exit_code' = 1 /\ UNCHANGED merged
       ELSE /\ pc' = "written"
            /\ merged' = Some(build_merged_ics_spp(vevents))
            /\ exit_code' = 0
    /\ UNCHANGED <<scanVars, escapeVars, validateVars, windowVars,
                   events, ev_i, iso, window, feed, vevents, ve_i,
                   seen_uids, all_vevents, vtimezone, fetched>>

JsonNext ==
    \/ IsoneFetch \/ IsoneStep \/ IsoneFinish
    \/ SppFetch \/ SppStep \/ SppFinish

SpecJson == JsonInit /\ [][JsonNext]_vars

-----------------------------------------------------------------------------
(* The validator: one turn of the loop of validate_feeds.py *)

\* the tokens of the modelled texts that hold the literal as a substring (in
\* these texts no literal the validator looks for is split over tokens)
Holding(lit) == IF lit = "SUMMARY" THEN {"SUMMARY", "SUMMARY:"} ELSE {lit}

\* text.count(lit)
Count(t, lit) == Cardinality({ i \in 1..Len(t) : t[i] \in Holding(lit) })

\* lit in text
Contains(t, lit) == \E i \in 1..Len(t) : t[i] \in Holding(lit)

\* f"{n}" of a natural number
RECURSIVE Decimal(_)
Decimal(n) ==
    IF n < 10 THEN <<Digits[n + 1]>>
    ELSE Decimal(n \div 10) \o <<Digits[(n % 10) + 1]>>

\* re.findall(r"BEGIN:VEVENT.*?END:VEVENT", text, re.DOTALL) from position
\* from on: the leftmost begin literal, up to the first end literal after it,
\* then on from behind that end literal
RECURSIVE FindAllFrom(_, _)
FindAllFrom(t, from) ==
    LET begins == { i \in from..Len(t) : t[i] \in Holding("BEGIN:VEVENT") }
    IN  IF begins = {} THEN <<>>
        ELSE LET b == CHOOSE i \in begins : \A j \in begins : i <= j
                 ends == { i \in (b + 1)..Len(t) : t[i] \in Holding("END:VEVENT") }
             IN  IF ends = {} THEN <<>>
                 ELSE LET e == CHOOSE i \in ends : \A j \in ends : i <= j
                      IN  <<SubSeq(t, b, e)>> \o FindAllFrom(t, e + 1)

\* a mutant of Issues: the mismatch entry names the two counts the other way round
Issues_swapped(has_vcal_start, has_vcal_end, has_version, has_prodid, n_begin, n_end, missing_dtstart, missing_summary) ==
    (IF ~has_vcal_start THEN << <<"missing BEGIN:VCALENDAR">> >> ELSE <<>>) \o
    (IF ~has_vcal_end THEN << <<"missing END:VCALENDAR">> >> ELSE <<>>) \o
    (IF ~has_version THEN << <<"missing VERSION:2.0">> >> ELSE <<>>) \o
    (IF ~has_prodid THEN << <<"missing PRODID">> >> ELSE <<>>) \o
    (IF n_begin # n_end
     THEN << <<"VEVENT mismatch: ">> \o Decimal(n_end) \o <<" begin vs ">>
             \o Decimal(n_begin) \o <<" end">> >>
     ELSE <<>>) \o
    (IF missing_dtstart # 0
     THEN << Decimal(missing_dtstart) \o <<" events missing DTSTART">> >> ELSE <<>>) \o
    (IF missing_summary # 0
     THEN << Decimal(missing_summary) \o <<" events missing SUMMARY">> >> ELSE <<>>)

\* the issue list, lines 30-44
Issues(has_vcal_start, has_vcal_end, has_version, has_prodid, n_begin, n_end, missing_dtstart, missing_summary) ==
    (IF ~has_vcal_start THEN << <<"missing BEGIN:VCALENDAR">> >> ELSE <<>>) \o
    (IF ~has_vcal_end THEN << <<"missing END:VCALENDAR">> >> ELSE <<>>) \o
    (IF ~has_version THEN << <<"missing VERSION:2.0">> >> ELSE <<>>) \o
    (IF ~has_prodid THEN << <<"missing PRODID">> >> ELSE <<>>) \o
    (IF n_begin # n_end
     THEN << <<"VEVENT mismatch: ">> \o Decimal(n_begin) \o <<" begin vs ">>
             \o Decimal(n_end) \o <<" end">> >>
     ELSE <<>>) \o
    (IF missing_dtstart # 0
     THEN << Decimal(missing_dtstart) \o <<" events missing DTSTART">> >> ELSE <<>>) \o
    (IF missing_summary # 0
     THEN << Decimal(missing_summary) \o <<" events missing SUMMARY">> >> ELSE <<>>)

\* a mutant of validate: the end of the calendar is looked for at the end
\* of the text as fetched, not of the trimmed text
validate_untrimmed(t) ==
    LET n_begin == Count(t, "BEGIN:VEVENT")
        n_end == Count(t, "END:VEVENT")
        stripped == Strip(t)
        has_vcal_start == stripped # <<>> /\ stripped[1] = "BEGIN:VCALENDAR"
        has_vcal_end == t # <<>> /\ t[Len(t)] = "END:VCALENDAR"
        has_version == Contains(t, "VERSION:2.0")
        has_prodid == Contains(t, "PRODID:")
        vevent_blocks == FindAllFrom(t, 1)
        missing_dtstart ==
            Cardinality({ k \in 1..Len(vevent_blocks) : ~Contains(vevent_blocks[k], "DTSTART") })
        missing_summary ==
            Cardinality({ k \in 1..Len(vevent_blocks) : ~Contains(vevent_blocks[k], "SUMMARY") })
        issues == Issues(has_vcal_start, has_vcal_end, has_version, has_prodid,
                         n_begin, n_end, missing_dtstart, missing_summary)
    IN  [ events |-> n_begin,
          vevent_blocks |-> vevent_blocks,
          issues |-> issues,
          status |-> IF issues = <<>> THEN "PASS" ELSE "FAIL",
          detail |-> IF issues # <<>> THEN Join(issues, <<" | ">>) ELSE <<>> ]

\* lines 18-48 of validate_feeds.py for one text: the event count printed,
\* the blocks looked at, the issues, the status and the detail printed
validate(t) ==
    LET n_begin == Count(t, "BEGIN:VEVENT")
        n_end == Count(t, "END:VEVENT")
        stripped == Strip(t)
        has_vcal_start == stripped # <<>> /\ stripped[1] = "BEGIN:VCALENDAR"
        has_vcal_end == stripped # <<>> /\ stripped[Len(stripped)] = "END:VCALENDAR"
        has_version == Contains(t, "VERSION:2.0")
        has_prodid == Contains(t, "PRODID:")
        vevent_blocks == FindAllFrom(t, 1)
        missing_dtstart ==
            Cardinality({ k \in 1..Len(vevent_blocks) : ~Contains(vevent_blocks[k], "DTSTART") })
        missing_summary ==
            Cardinality({ k \in 1..Len(vevent_blocks) : ~Contains(vevent_blocks[k], "SUMMARY") })
        issues == Issues(has_vcal_start, has_vcal_end, has_version, has_prodid,
                         n_begin, n_end, missing_dtstart, missing_summary)
    IN  [ events |-> n_begin,
          vevent_blocks |-> vevent_blocks,
          issues |-> issues,
          status |-> IF issues = <<>> THEN "PASS" ELSE "FAIL",
          detail |-> IF issues # <<>> THEN Join(issues, <<" | ">>) ELSE <<>> ]

\* the parts the validated texts are made of, each a list of lines
SummaryLine == <<"SUMMARY:", "x">>
StartLine == DtstartLine(<<2026, 12, 1>>)[1]
EvFull == <<BEGIN_VEVENT, StartLine, SummaryLine, END_VEVENT>>
EvNoSummary == <<BEGIN_VEVENT, StartLine, END_VEVENT>>
EvNoStart == <<BEGIN_VEVENT, SummaryLine, END_VEVENT>>
EvBare == <<BEGIN_VEVENT, END_VEVENT>>
StrayBegin == <<BEGIN_VEVENT>>
StrayEnd == <<END_VEVENT>>
TzPart == <<BEGIN_VTIMEZONE, DtstartLine(<<1970, 11, 1>>)[1], END_VTIMEZONE>>

PartKinds == {EvFull, EvNoSummary, EvNoStart, EvBare, StrayBegin, StrayEnd, TzPart}

\* the texts a feed's URL may answer with: each header line and the footer
\* there or not, at most MaxParts parts, lines ended by CRLF or by LF
ValidateTexts ==
    { LET ls == (IF h[1] THEN << <<"BEGIN:VCALENDAR">> >> ELSE <<>>) \o
                (IF h[2] THEN << <<"VERSION:2.0">> >> ELSE <<>>) \o
                (IF h[3] THEN << <<"PRODID:", "-//X//EN">> >> ELSE <<>>) \o
                ConcatAll(ps) \o
                (IF h[4] THEN <<Footer>> ELSE <<>>)
      IN  ConcatAll([k \in 1..Len(ls) |-> ls[k] \o eol]) :
        h \in [1..4 -> BOOLEAN],
        ps \in UNION { [1..n -> PartKinds] : n \in 0..MaxParts },
        eol \in {CRLF, <<LF>>} }

ValidateInit ==
    /\ pc = "validate"
    /\ feed_text \in ValidateTexts
    /\ verdict = None
    /\ ScanIdle
    /\ MergeIdle
    /\ EscapeIdle
    /\ JsonIdle
    /\ WindowIdle

Validate ==
    /\ pc = "validate"
    /\ pc' = "validated"
    /\ verdict' = Some(validate(feed_text))
    /\ UNCHANGED <<feed_text, scanVars, mergeVars, escapeVars, jsonVars, windowVars>>

ValidateNext == Validate

SpecValidate == ValidateInit /\ [][ValidateNext]_vars

-----------------------------------------------------------------------------
(* fetch_caiso_calendar.py and fetch_miso_calendar.py: one calendar text per
   listed event *)

\* date_range of fetch_caiso_calendar.py, today being in month m of year y:
\* the two dates in isoformat
date_range_caiso(y, m, months_ahead) ==
    LET month0 == m + months_ahead
        year == y + ((month0 - 1) \div 12)
        month == ((month0 - 1) % 12) + 1
    IN  << ToDigits(y, 4) \o <<"-">> \o ToDigits(m, 2) \o <<"-">> \o ToDigits(1, 2),
           ToDigits(year, 4) \o <<"-">> \o ToDigits(month, 2) \o <<"-">> \o ToDigits(1, 2) >>

\* months_to_fetch (MISO): the loop appends (m, y) and steps to the next month
RECURSIVE months_to_fetch(_, _, _)
months_to_fetch(y, m, months_ahead) ==
    IF months_ahead = 0 THEN <<>>
    ELSE << <<m, y>> >> \o (IF m + 1 > 12
                            THEN months_to_fetch(y + 1, 1, months_ahead - 1)
                            ELSE months_to_fetch(y, m + 1, months_ahead - 1))

\* fetch_ics (CAISO): None when the request raised
fetch_ics_caiso(answer) == IF answer.failed THEN None ELSE Some(answer.text)

\* fetch_ics (MISO): None unless curl succeeded and sent a calendar
fetch_ics_miso(answer) ==
    IF answer.failed \/ Find(answer.text, <<"BEGIN:VCALENDAR">>) = 0 THEN None
    ELSE Some(answer.text)

CaisoHeader ==
    << <<"BEGIN:VCALENDAR">>, <<"VERSION:2.0">>,
       <<"PRODID:", "-//CAISO Calendar Sync//EN">>, <<"CALSCALE:GREGORIAN">>,
       <<"METHOD:PUBLISH">>, <<"X-WR-CALNAME:", "CAISO Events">>,
       <<"X-WR-TIMEZONE:", "America/Los_Angeles">> >>

MisoHeader ==
    << <<"BEGIN:VCALENDAR">>, <<"VERSION:2.0">>,
       <<"PRODID:", "-//MISO Calendar Sync//EN">>, <<"CALSCALE:GREGORIAN">>,
       <<"METHOD:PUBLISH">>, <<"X-WR-CALNAME:", "MISO Events">>,
       <<"X-WR-TIMEZONE:", "America/New_York">> >>

\* build_merged_ics of fetch_caiso_calendar.py
build_merged_ics_caiso(blocks) ==
    LET header == Join(CaisoHeader, CRLF)
        body == Join(blocks, CRLF)
    IN  header \o CRLF \o body \o CRLF \o Footer \o CRLF

\* build_merged_ics of fetch_miso_calendar.py
build_merged_ics_miso(blocks) ==
    LET header == Join(MisoHeader, CRLF)
        body == Join(blocks, CRLF)
    IN  header \o CRLF \o body \o CRLF \o Footer \o CRLF

\* MISO, lines 112-115: the listed objects with a content GUID, the first of
\* each GUID, in the order of listing
RECURSIVE DedupByGuid(_, _)
DedupByGuid(es, guids) ==
    IF es = <<>> THEN <<>>
    ELSE LET guid == Get(es[1], "contentGuid", Str(<<>>))
         IN  IF Truth(guid) /\ guid \notin guids
             THEN <<es[1]>> \o DedupByGuid(Tail(es), guids \cup {guid})
             ELSE DedupByGuid(Tail(es), guids)

\* MISO, line 123: sorted(..., key=lambda e: e.get("startDate", "")), a stable
\* sort
StartKey(e) == Get(e, "startDate", Str(<<>>)).v

RECURSIVE SortByStart(_)
SortByStart(es) ==
    IF es = <<>> THEN <<>>
    ELSE LET front == SortByStart(SubSeq(es, 1, Len(es) - 1))
             e == es[Len(es)]
             k == Cardinality({ i \in 1..Len(front) :
                                  ~StrLess(StartKey(e), StartKey(front[i])) })
         IN  SubSeq(front, 1, k) \o <<e>> \o SubSeq(front, k + 1, Len(front))

\* the calendar texts the servers answer a request for one event with: the
\* event blocks between the calendar markers
IcsBodies ==
    { EvFull,
      <<BEGIN_VEVENT, SummaryLine>> \o EvFull,
      <<END_VEVENT>> \o EvFull,
      EvFull \o EvNoSummary,
      <<BEGIN_VEVENT, StartLine>>,
      <<>> }

IcsText(body) == Join(<< <<"BEGIN:VCALENDAR">> >> \o body \o <<Footer>>, CRLF) \o CRLF

\* the answers to a request for one event: a failure, an empty text, a text
\* that is no calendar, a calendar
IcsAnswers ==
    { [failed |-> TRUE, text |-> <<>>],
      [failed |-> FALSE, text |-> <<>>],
      [failed |-> FALSE, text |-> <<"<html>">>] }
    \cup { [failed |-> FALSE, text |-> IcsText(b)] : b \in IcsBodies }

\* the objects of the CAISO listing
CaisoKinds ==
    { [id |-> i, title |-> Str(<<"Board">>)] : i \in {IntVal(<<"7">>), IntVal(<<"8">>), Absent} }
    \cup { [id |-> IntVal(<<"7">>), title |-> Absent] }

LaterStamp ==
    <<"2", "0", "2", "6", "-", "1", "2", "-", "0", "2", "T",
      "0", "8", ":", "3", "0", ":", "0", "0">>

\* the objects of the MISO listing
MisoKinds ==
    { [contentGuid |-> g, name |-> Str(<<"Board">>), urlSegment |-> u, startDate |-> s] :
        g \in {Str(<<"g1">>), Str(<<"g2">>), Absent},
        u \in {Str(<<"board">>), Absent},
        s \in {Str(StartStamp), Str(LaterStamp), Absent} }

\* what the MISO API answers for the months asked: per month a failure of curl
\* or a list of objects, at most MaxSingleEvents objects in all
MisoListings(n) ==
    { ms \in [1..n -> { [returncode |-> 1, events |-> <<>>] }
                      \cup { [returncode |-> 0, events |-> es] :
                               es \in UNION { [1..k -> MisoKinds] : k \in 0..MaxSingleEvents } }] :
        Len(ConcatAll([i \in 1..n |-> ms[i].events])) <= MaxSingleEvents }

\* fetch_events_for_month
fetch_events_for_month(answer) == IF answer.returncode # 0 THEN <<>> ELSE answer.events

\* --months, default=3
DefaultMonths == 3

SingleInit ==
    /\ pc = "list"
    /\ iso \in {"caiso", "miso"}
    /\ today = Today
    /\ months \in IF iso = "miso" THEN 0..MaxMisoMonths ELSE {DefaultMonths}
    /\ window = IF iso = "caiso" THEN date_range_caiso(Today[1], Today[2], months)
                ELSE << <<>>, <<>> >>
    /\ events = <<>>
    /\ ev_i = 1
    /\ feed = 0
    /\ vevents = <<>>
    /\ ve_i = 1
    /\ seen_uids = {}
    /\ all_vevents = <<>>
    /\ vtimezone = None
    /\ merged = None
    /\ exit_code = -1
    /\ fetched = <<>>
    /\ ScanIdle
    /\ EscapeIdle
    /\ ValidateIdle

\* CAISO, lines 103-107: the listing is fetched; raise_for_status may raise;
\* an empty listing ends the run with status 0
CaisoList ==
    /\ pc = "list" /\ iso = "caiso"
    /\ \E answer \in { [raised |-> TRUE, events |-> <<>>] }
                     \cup { [raised |-> FALSE, events |-> es] :
                              es \in UNION { [1..k -> CaisoKinds] : k \in 0..MaxSingleEvents } } :
          IF answer.raised
          THEN pc' = "crashed" /\ exit_code' = 1 /\ UNCHANGED events
          ELSE /\ events' = answer.events
               /\ IF answer.events = <<>>
                  THEN pc' = "exit" /\ exit_code' = 0
                  ELSE pc' = "each" /\ UNCHANGED exit_code
    /\ UNCHANGED <<scanVars, escapeVars, validateVars, windowVars, ev_i,
                   iso, window, feed, vevents, ve_i, seen_uids,
                   all_vevents, vtimezone, merged, fetched>>

\* CAISO, lines 110-122: one turn of the loop over the listing; event["id"]
\* raises KeyError for an object without id
CaisoStep ==
    /\ pc = "each" /\ iso = "caiso"
    /\ ev_i <= Len(events)
    /\ IF events[ev_i]["id"].t = "absent"
       THEN pc' = "crashed" /\ exit_code' = 1 /\ UNCHANGED <<ics_text, vevents, ev_i>>
       ELSE /\ \E answer \in IcsAnswers :
                  LET text == fetch_ics_caiso(answer)
                  IN  IF ~Truthy(text)
                      THEN ics_text' = <<>> /\ UNCHANGED vevents
                      ELSE /\ ics_text' = text[1]
                           /\ vevents' = IF Truthy(extract_vevent(text[1]))
                                         THEN Append(vevents, extract_vevent(text[1])[1])
                                         ELSE vevents
            /\ ev_i' = ev_i + 1
            /\ UNCHANGED <<pc, exit_code>>
    /\ UNCHANGED <<mode, scanned, escapeVars, validateVars, windowVars, events,
                   iso, window, feed, ve_i, seen_uids,
                   all_vevents, vtimezone, merged, fetched>>

\* CAISO, lines 124-130: no block, exit status 1; else the document is written
CaisoFinish ==
    /\ pc = "each" /\ iso = "caiso"
    /\ ev_i > Len(events)
    /\ IF vevents = <<>>
       THEN pc' = "exit" /\ exit_code' = 1 /\ UNCHANGED merged
       ELSE /\ pc' = "written"
            /\ merged' = Some(build_merged_ics_caiso(vevents))
            /\ exit_code' = 0
    /\ UNCHANGED <<scanVars, escapeVars, jsonVars, validateVars, windowVars,
                   iso, window, feed, vevents, ve_i, seen_uids, all_vevents,
                   vtimezone, fetched>>

\* MISO, lines 105-123: the months are listed, the objects collected by
\* content GUID; none ends the run with status 0; else they are sorted by start
MisoList ==
    /\ pc = "list" /\ iso = "miso"
    /\ LET asked == months_to_fetch(today[1], today[2], months)
       IN  \E answers \in MisoListings(Len(asked)) :
              LET listed == ConcatAll([i \in 1..Len(asked) |->
                                          fetch_events_for_month(answers[i])])
                  all_events == DedupByGuid(listed, {})
              IN  IF all_events = <<>>
                  THEN pc' = "exit" /\ exit_code' = 0 /\ UNCHANGED events
                  ELSE /\ pc' = "each"
                       /\ events' = SortByStart(all_events)
                       /\ UNCHANGED exit_code
    /\ UNCHANGED <<scanVars, escapeVars, validateVars, windowVars, ev_i,
                   iso, window, feed, vevents, ve_i, seen_uids,
                   all_vevents, vtimezone, merged, fetched>>

\* MISO, lines 124-140: one turn of the loop over the sorted objects
MisoStep ==
    /\ pc = "each" /\ iso = "miso"
    /\ ev_i <= Len(events)
    /\ LET url_segment == Get(events[ev_i], "urlSegment", Str(<<>>))
           start_date == Get(events[ev_i], "startDate", Str(<<>>))
       IN  IF ~Truth(url_segment) \/ ~Truth(start_date)
           THEN UNCHANGED <<ics_text, vevents>>
           ELSE \E answer \in IcsAnswers :
                   LET text == fetch_ics_miso(answer)
                   IN  IF ~Truthy(text)
                       THEN ics_text' = <<>> /\ UNCHANGED vevents
                       ELSE /\ ics_text' = text[1]
                            /\ vevents' = IF Truthy(extract_vevent(text[1]))
                                          THEN Append(vevents, extract_vevent(text[1])[1])
                                          ELSE vevents
    /\ ev_i' = ev_i + 1
    /\ UNCHANGED <<pc, mode, scanned, escapeVars, validateVars, windowVars, events,
                   iso, window, feed, ve_i, seen_uids,
                   all_vevents, vtimezone, merged, exit_code, fetched>>

\* MISO, lines 142-148: no block, exit status 1; else the document is written
MisoFinish ==
    /\ pc = "each" /\ iso = "miso"
    /\ ev_i > Len(events)
    /\ IF vevents = <<>>
       THEN pc' = "exit" /\ exit_code' = 1 /\ UNCHANGED merged
       ELSE /\ pc' = "written"
            /\ merged' = Some(build_merged_ics_miso(vevents))
            /\ exit_code' = 0
    /\ UNCHANGED <<scanVars, escapeVars, jsonVars, validateVars, windowVars,
                   iso, window, feed, vevents, ve_i, seen_uids, all_vevents,
                   vtimezone, fetched>>

SingleNext ==
    \/ CaisoList \/ CaisoStep \/ CaisoFinish
    \/ MisoList \/ MisoStep \/ MisoFinish

SpecSingle == SingleInit /\ [][SingleNext]_vars

-----------------------------------------------------------------------------
(* Window runs: date_range of fetch_pjm_calendar.py and fetch_caiso_calendar.py
   for a month and a number of months ahead *)

\* years today lies in
WindowYears == {1999, 2026, 2027}

WindowInit ==
    /\ pc = "window"
    /\ iso \in {"pjm", "caiso"}
    /\ today \in { <<y, m>> : y \in WindowYears, m \in 1..12 }
    /\ months \in 0..MaxMonthsAhead
    /\ window = << <<>>, <<>> >>
    /\ feed = 0
    /\ vevents = <<>>
    /\ ve_i = 1
    /\ seen_uids = {}
    /\ all_vevents = <<>>
    /\ vtimezone = None
    /\ merged = None
    /\ exit_code = -1
    /\ fetched = <<>>
    /\ ScanIdle
    /\ EscapeIdle
    /\ JsonIdle
    /\ ValidateIdle

\* date_range(args.months)
DateRange ==
    /\ pc = "window"
    /\ pc' = "windowed"
    /\ window' = IF iso = "pjm" THEN date_range(today[1], today[2], months)
                 ELSE date_range_caiso(today[1], today[2], months)
    /\ UNCHANGED <<scanVars, escapeVars, jsonVars, validateVars, windowVars,
                   iso, feed, vevents, ve_i, seen_uids, all_vevents, vtimezone,
                   merged, exit_code, fetched>>

WindowNext == DateRange

SpecWindow == WindowInit /\ [][WindowNext]_vars

-----------------------------------------------------------------------------
(* Scan runs: one text, one scan *)

\* line contents a scanned text is made of
ScanLineKinds ==
    { <<>>, <<"x">>,
      BEGIN_VEVENT, <<SP>> \o END_VEVENT \o <<SP>>,
      BEGIN_VTIMEZONE, END_VTIMEZONE }

\* the three line endings
LineEndings == <<CRLF, <<CR>>, <<LF>>>>

\* ending of the k-th line of a text whose endings rotate from offset rot
EndingAt(k, rot) == LineEndings[((k + rot) % 3) + 1]

\* the text with the given lines from the k-th on, each but the last one
\* followed by its ending (a text ends with a line ending when its last line
\* is empty)
RECURSIVE RenderLines(_, _, _)
RenderLines(lines, k, rot) ==
    IF k > Len(lines) THEN <<>>
    ELSE lines[k]
         \o (IF k < Len(lines) THEN EndingAt(k, rot) ELSE <<>>)
         \o RenderLines(lines, k + 1, rot)

LineSeqs(n) == UNION { [1..m -> ScanLineKinds] : m \in 0..n }

ScanTexts ==
    { RenderLines(ls, 1, rot) : ls \in LineSeqs(MaxLines), rot \in 0..2 }

ScanInit ==
    /\ pc = "scan"
    /\ ics_text \in ScanTexts
    /\ mode = "none"
    /\ scanned = None
    /\ MergeIdle
    /\ EscapeIdle
    /\ JsonIdle
    /\ ValidateIdle
    /\ WindowIdle

ExtractVevents ==
    /\ pc = "scan"
    /\ pc' = "scanned"
    /\ mode' = "vevents"
    /\ scanned' = extract_vevents(ics_text)
    /\ UNCHANGED <<ics_text, mergeVars, escapeVars, jsonVars, validateVars, windowVars>>

ExtractVevent ==
    /\ pc = "scan"
    /\ pc' = "scanned"
    /\ mode' = "vevent"
    /\ scanned' = extract_vevent(ics_text)
    /\ UNCHANGED <<ics_text, mergeVars, escapeVars, jsonVars, validateVars, windowVars>>

ExtractVtimezone ==
    /\ pc = "scan"
    /\ pc' = "scanned"
    /\ mode' = "vtimezone"
    /\ scanned' = extract_vtimezone(ics_text)
    /\ UNCHANGED <<ics_text, mergeVars, escapeVars, jsonVars, validateVars, windowVars>>

ScanNext == ExtractVevents \/ ExtractVevent \/ ExtractVtimezone

SpecScan == ScanInit /\ [][ScanNext]_vars

-----------------------------------------------------------------------------
(* Round trips: a text is parsed, a document built from its blocks, and the
   document parsed again *)

RoundTripTexts ==
    { RenderLines(ls, 1, rot) : ls \in LineSeqs(MaxTripLines), rot \in 0..2 }

RoundTripInit ==
    /\ pc = "parse"
    /\ ics_text \in RoundTripTexts
    /\ mode = "none"
    /\ scanned = None
    /\ iso \in {"nyiso", "pjm"}
    /\ window = << <<>>, <<>> >>
    /\ feed = 0
    /\ vevents = <<>>
    /\ ve_i = 1
    /\ seen_uids = {}
    /\ all_vevents = <<>>
    /\ vtimezone = None
    /\ merged = None
    /\ exit_code = -1
    /\ fetched = <<>>
    /\ EscapeIdle
    /\ JsonIdle
    /\ ValidateIdle
    /\ WindowIdle

\* extract_vevents and, for NYISO, extract_vtimezone of the text
ParseText ==
    /\ pc = "parse"
    /\ pc' = "parsed"
    /\ all_vevents' = extract_vevents(ics_text)
    /\ vtimezone' = IF iso = "nyiso" THEN extract_vtimezone(ics_text) ELSE None
    /\ UNCHANGED <<scanVars, escapeVars, jsonVars, validateVars, windowVars,
                   iso, window, feed, vevents, ve_i, seen_uids, merged,
                   exit_code, fetched>>

\* build_merged_ics of the blocks
BuildDocument ==
    /\ pc = "parsed"
    /\ pc' = "built"
    /\ merged' = Some(IF iso = "nyiso"
                      THEN build_merged_ics_nyiso(all_vevents, vtimezone)
                      ELSE build_merged_ics_pjm(all_vevents))
    /\ UNCHANGED <<scanVars, escapeVars, jsonVars, validateVars, windowVars,
                   iso, window, feed, vevents, ve_i, seen_uids, all_vevents,
                   vtimezone, exit_code, fetched>>

\* extract_vevents of the document
ParseDocument ==
    /\ pc = "built"
    /\ pc' = "reparsed"
    /\ mode' = "vevents"
    /\ scanned' = extract_vevents(merged[1])
    /\ UNCHANGED <<ics_text, mergeVars, escapeVars, jsonVars, validateVars, windowVars>>

RoundTripNext == ParseText \/ BuildDocument \/ ParseDocument

SpecRoundTrip == RoundTripInit /\ [][RoundTripNext]_vars

-----------------------------------------------------------------------------
(* Reference notions the block-scan claims are stated with *)

\* the lines of a text read in one pass, a line ending being CRLF, CR or LF
RECURSIVE RefLines(_, _)
RefLines(text, cur) ==
    IF text = <<>> THEN <<cur>>
    ELSE IF Len(text) >= 2 /\ text[1] = CR /\ text[2] = LF
         THEN <<cur>> \o RefLines(SubSeq(text, 3, Len(text)), <<>>)
         ELSE IF text[1] \in {CR, LF}
              THEN <<cur>> \o RefLines(Tail(text), <<>>)
              ELSE RefLines(Tail(text), Append(cur, text[1]))

TextLines == RefLines(ics_text, <<>>)

IsLine(line, marker) == Strip(line) = marker

\* indices of the VEVENT marker lines, ascending
MarkerIdx(lines) ==
    LET F[i \in 0..Len(lines)] ==
            IF i = 0 THEN <<>>
            ELSE IF IsLine(lines[i], BEGIN_VEVENT) \/ IsLine(lines[i], END_VEVENT)
                 THEN Append(F[i - 1], i)
                 ELSE F[i - 1]
    IN  F[Len(lines)]

\* the marker lines are begin, end, begin, end, ...: only well-formed blocks
WellFormed(lines) ==
    LET m == MarkerIdx(lines)
    IN  /\ Len(m) % 2 = 0
        /\ \A k \in 1..Len(m) :
              IF k % 2 = 1 THEN IsLine(lines[m[k]], BEGIN_VEVENT)
              ELSE IsLine(lines[m[k]], END_VEVENT)

\* the blocks of a well-formed text: for each begin/end pair, its lines
SourceBlocks(lines) ==
    LET m == MarkerIdx(lines)
    IN  [j \in 1..(Len(m) \div 2) |-> Join(SubSeq(lines, m[2 * j - 1], m[2 * j]), CRLF)]

\* C1: all-blocks extraction of a text of N well-formed event blocks and
\* non-marker lines, with any mix of CRLF, CR and LF endings, returns exactly
\* the N blocks in source order, each the lines of its source block from the
\* begin marker to the end marker joined by CRLF, and nothing from outside
C1_AllBlocksExtraction ==
    (pc = "scanned" /\ mode = "vevents") =>
        LET lines == TextLines
        IN  WellFormed(lines)
               => /\ scanned = SourceBlocks(lines)
                  /\ \A j \in 1..Len(scanned) :
                        LET bl == Split(scanned[j], CRLF)
                        IN  /\ IsLine(bl[1], BEGIN_VEVENT)
                            /\ IsLine(bl[Len(bl)], END_VEVENT)

\* two blocks extracted from a text that also has a line outside the blocks
\* and uses all three line endings
C1_Witness ==
    /\ pc = "scanned" /\ mode = "vevents" /\ WellFormed(TextLines)
    /\ Len(scanned) = 2
    /\ \E i \in 1..Len(TextLines) : TextLines[i] = <<"x">>
    /\ Find(ics_text, CRLF) > 0
    /\ \E i \in 1..Len(ics_text) - 1 : ics_text[i] = CR /\ ics_text[i + 1] # LF
    /\ \E i \in 2..Len(ics_text) : ics_text[i] = LF /\ ics_text[i - 1] # CR

\* line i is a begin marker and no matching end marker follows it
Unterminated(lines, i, begin, end) ==
    /\ IsLine(lines[i], begin)
    /\ \A j \in (i + 1)..Len(lines) : ~IsLine(lines[j], end)

\* the text made of the lines before line i
Before(lines, i) == Join(SubSeq(lines, 1, i - 1), <<LF>>)

NoEarlier(lines, i, begin) == \A j \in 1..(i - 1) : ~IsLine(lines[j], begin)

\* C2: in every scan mode, a begin marker that no matching end marker
\* follows contributes nothing: the scan returns what it returns for the
\* text that stops before that marker (all-blocks mode: only the blocks
\* completed before it), and None / no block when no begin marker precedes it
C2_UnterminatedDropped ==
    pc = "scanned" =>
        LET lines == TextLines
        IN  \A i \in 1..Len(lines) :
               /\ (mode = "vevents" /\ Unterminated(lines, i, BEGIN_VEVENT, END_VEVENT))
                     => /\ scanned = extract_vevents(Before(lines, i))
                        /\ NoEarlier(lines, i, BEGIN_VEVENT) => scanned = <<>>
               /\ (mode = "vevent" /\ Unterminated(lines, i, BEGIN_VEVENT, END_VEVENT))
                     => /\ scanned = extract_vevent(Before(lines, i))
                        /\ NoEarlier(lines, i, BEGIN_VEVENT) => scanned = None
               /\ (mode = "vtimezone"
                     /\ Unterminated(lines, i, BEGIN_VTIMEZONE, END_VTIMEZONE))
                     => /\ scanned = extract_vtimezone(Before(lines, i))
                        /\ NoEarlier(lines, i, BEGIN_VTIMEZONE) => scanned = None

\* an all-blocks scan that returned the one block completed before an
\* unterminated begin marker with content after it
C2_Witness ==
    /\ pc = "scanned" /\ mode = "vevents"
    /\ Len(scanned) = 1
    /\ \E i \in 1..Len(TextLines) - 1 :
          /\ Unterminated(TextLines, i, BEGIN_VEVENT, END_VEVENT)
          /\ TextLines[i + 1] = <<"x">>
          /\ ~NoEarlier(TextLines, i, BEGIN_VEVENT)

-----------------------------------------------------------------------------
(* Reference notions the merge claims are stated with *)

\* the events of the feeds fetched so far, in feed order
Events == Flat(fetched)

\* the events whose blocks the inner loop has taken so far
Processed == SubSeq(Events, 1, Len(Events) - (Len(vevents) - ve_i + 1))

\* the blocks of the events of es at the indices in S, in order
BlocksAt(es, S) ==
    LET idx == Ascending(S) IN [k \in 1..Len(idx) |-> Block(es[idx[k]])]

\* the event a block of a feed was made of has this UID ("" for none)
UidOf(block) ==
    LET S == { k \in 1..Len(Events) : Block(Events[k]) = block }
    IN  IF S = {} THEN "?" ELSE Events[CHOOSE k \in S : TRUE].uid

Kept(e) == \E k \in 1..Len(all_vevents) : all_vevents[k] = Block(e)

UidsOf(es) == [k \in 1..Len(es) |-> es[k].uid]

\* C3: NYISO's all_vevents is exactly the sub-sequence of the blocks of the
\* fetched feeds, in feed order, that have a UID which no earlier block
\* has; later blocks with a seen UID and blocks without UID are not kept
C3_FirstOccurrencesInOrder ==
    iso = "nyiso" =>
        all_vevents =
            BlocksAt(Processed,
                     { i \in 1..Len(Processed) :
                         /\ Processed[i].uid # ""
                         /\ \A j \in 1..(i - 1) : Processed[j].uid # Processed[i].uid })

\* identities a, b, a, c from two feeds gave the blocks of the first a, b and c
C3_Witness ==
    /\ iso = "nyiso" /\ pc = "written"
    /\ Len(fetched) = 2 /\ fetched[1] # <<>> /\ fetched[2] # <<>>
    /\ UidsOf(Processed) = <<"a", "b", "a", "c">>
    /\ all_vevents = <<Block(Events[1]), Block(Events[2]), Block(Events[4])>>

\* C4: in the NYISO and PJM runs, whatever the number of feeds taken, no two
\* blocks of all_vevents have the same UID and seen_uids is exactly the set of
\* their UIDs; feeds {X, Y} and {X, Z} give the three blocks X, Y, Z, with X
\* the block of the first feed
C4_SeenPersistsAcrossFeeds ==
    iso \in {"nyiso", "pjm"} =>
        /\ LET uids == [i \in 1..Len(all_vevents) |-> UidOf(all_vevents[i])]
           IN  /\ \A i, j \in 1..Len(uids) : i < j => uids[i] # uids[j]
               /\ seen_uids = { <<uids[i]>> : i \in 1..Len(uids) }
        /\ ( /\ Len(fetched) = 2 /\ ve_i > Len(vevents)
             /\ UidsOf(fetched[1]) = <<"a", "b">>
             /\ UidsOf(fetched[2]) = <<"a", "c">> )
              => all_vevents = <<Block(fetched[1][1]), Block(fetched[1][2]),
                                 Block(fetched[2][2])>>

\* the NYISO run that merged the feeds {a, b} and {a, c} and wrote three events
C4_Witness ==
    /\ iso = "nyiso" /\ pc = "written"
    /\ Len(fetched) = 2
    /\ UidsOf(fetched[1]) = <<"a", "b">>
    /\ UidsOf(fetched[2]) = <<"a", "c">>
    /\ Len(all_vevents) = 3
    /\ seen_uids = {<<"a">>, <<"b">>, <<"c">>}

\* the number a string of digits reads as
Num(ds) ==
    LET F[i \in 0..Len(ds)] == IF i = 0 THEN 0 ELSE 10 * F[i - 1] + Ord(ds[i])
    IN  F[Len(ds)]

HasDate(e) == Len(e.date) = 3

\* the event's start date as the number YYYYMMDD
DateNum(e) == e.date[1] * 10000 + e.date[2] * 100 + e.date[3]

WindowStart == Num(window[1])
WindowEnd == Num(window[2])

\* the event has a UID that no kept earlier event of the run has
Fresh(i) ==
    /\ Processed[i].uid # ""
    /\ \A j \in 1..(i - 1) : Processed[j].uid = Processed[i].uid => ~Kept(Processed[j])

\* C5 as stated: among the blocks PJM's loop has taken that have a DTSTART
\* date d, one is kept only if start <= d < end, one with d = end is dropped,
\* and one with d = start (and a UID not yet kept) is kept
C5_AsStated ==
    iso = "pjm" =>
        \A i \in 1..Len(Processed) :
            LET e == Processed[i] IN
            HasDate(e) =>
                /\ Kept(e) => (WindowStart <= DateNum(e) /\ DateNum(e) < WindowEnd)
                /\ DateNum(e) = WindowEnd => ~Kept(e)
                /\ (DateNum(e) = WindowStart /\ Fresh(i)) => Kept(e)

\* C5 amended: the same, the block with d = start being kept when the window
\* is not empty (start < end)
C5_DateFilterBoundaries ==
    iso = "pjm" =>
        \A i \in 1..Len(Processed) :
            LET e == Processed[i] IN
            HasDate(e) =>
                /\ Kept(e) => (WindowStart <= DateNum(e) /\ DateNum(e) < WindowEnd)
                /\ DateNum(e) = WindowEnd => ~Kept(e)
                /\ (DateNum(e) = WindowStart /\ WindowStart < WindowEnd /\ Fresh(i))
                      => Kept(e)

\* a block starting on the window's end date was dropped, then a block with
\* the same UID starting on the window's start date was kept
C5_Witness ==
    /\ iso = "pjm" /\ Len(Processed) = 2
    /\ WindowStart < WindowEnd
    /\ HasDate(Processed[1]) /\ DateNum(Processed[1]) = WindowEnd
    /\ HasDate(Processed[2]) /\ DateNum(Processed[2]) = WindowStart
    /\ Processed[1].uid = "a" /\ Processed[2].uid = "a"
    /\ all_vevents = <<Block(Processed[2])>>

\* the event passes PJM's filters taken alone: a UID, and no start date
\* outside the window
Passes(e) ==
    /\ e.uid # ""
    /\ HasDate(e) => (WindowStart <= DateNum(e) /\ DateNum(e) < WindowEnd)

\* the turn of PJM's loop that takes a block whose start date is outside the window
TakesOutOfWindow ==
    /\ iso = "pjm" /\ pc = "merge" /\ ve_i <= Len(vevents) /\ ve_i' = ve_i + 1
    /\ LET e == Events[Len(Processed) + 1]
       IN  HasDate(e) /\ ~(WindowStart <= DateNum(e) /\ DateNum(e) < WindowEnd)

\* C6: in PJM's loop a block dropped for its start date leaves seen_uids and
\* all_vevents as they were, and the first block of each UID that passes the
\* date filter is kept, whatever blocks with that UID were dropped before it
C6_FilterBeforeDedup ==
    /\ [][TakesOutOfWindow => UNCHANGED <<seen_uids, all_vevents>>]_vars
    /\ [](iso = "pjm" =>
            \A i \in 1..Len(Processed) :
                ( /\ Passes(Processed[i])
                  /\ \A j \in 1..(i - 1) :
                        Processed[j].uid = Processed[i].uid => ~Passes(Processed[j]) )
                    => Kept(Processed[i]))

\* a block of UID a before the window was dropped in the first feed, and the
\* block of UID a on the window's start date was kept from the second feed
C6_Witness ==
    /\ iso = "pjm" /\ Len(fetched) = 2 /\ Len(Processed) = 2
    /\ Len(fetched[1]) = 1
    /\ Processed[1].uid = "a" /\ HasDate(Processed[1])
    /\ DateNum(Processed[1]) < WindowStart
    /\ Processed[2].uid = "a" /\ HasDate(Processed[2])
    /\ DateNum(Processed[2]) = WindowStart
    /\ all_vevents = <<Block(Processed[2])>>
    /\ seen_uids = {<<"a">>}

HasDtstartLine(block) ==
    \E k \in 1..Len(Split(block, CRLF)) : StartsWith(Split(block, CRLF)[k], <<"DTSTART">>)

\* C7: every event block PJM's date-filtered merge keeps has a DTSTART field
C7_EveryKeptBlockHasStart ==
    iso = "pjm" => \A k \in 1..Len(all_vevents) : HasDtstartLine(all_vevents[k])

\* the parts of a document, each followed by CRLF
Layout(parts) == ConcatAll([k \in 1..Len(parts) |-> parts[k] \o CRLF])

\* C10: the document written for a non-empty list of event blocks is the
\* seven header lines in their fixed order, the timezone block if there is
\* one (NYISO), the event blocks in their order and END:VCALENDAR, each part
\* followed by exactly one CRLF
C10_DocumentLayout ==
    (pc = "written" /\ iso \in {"nyiso", "pjm"}) =>
        LET doc == merged[1]
            lines == Split(doc, CRLF)
            header == IF iso = "nyiso" THEN NyisoHeader ELSE PjmHeader
            tz == IF iso = "nyiso" /\ vtimezone # None THEN <<vtimezone[1]>> ELSE <<>>
        IN  /\ all_vevents # <<>>
            /\ doc = Layout(header \o tz \o all_vevents \o <<Footer>>)
            /\ lines[1] = <<"BEGIN:VCALENDAR">>
            /\ lines[2] = <<"VERSION:2.0">>
            /\ lines[3][1] = "PRODID:"
            /\ lines[4] = <<"CALSCALE:GREGORIAN">>
            /\ lines[5] = <<"METHOD:PUBLISH">>
            /\ lines[6][1] = "X-WR-CALNAME:"
            /\ lines[7][1] = "X-WR-TIMEZONE:"
            /\ lines[Len(lines) - 1] = Footer /\ lines[Len(lines)] = <<>>

\* a NYISO document with a timezone block and two event blocks
C10_Witness ==
    /\ pc = "written" /\ iso = "nyiso"
    /\ vtimezone # None
    /\ Len(all_vevents) = 2
    /\ Find(merged[1], vtimezone[1] \o CRLF \o all_vevents[1] \o CRLF \o all_vevents[2]) > 0

-----------------------------------------------------------------------------
(* Reference notions the escaping claim is stated with *)

\* the inverse the claim names: read left to right, backslash-backslash is a
\* backslash, backslash-semicolon a semicolon, backslash-comma a comma,
\* backslash-n a newline; any other character stands for itself
RECURSIVE Unescape(_)
Unescape(t) ==
    IF t = <<>> THEN <<>>
    ELSE IF t[1] = BS /\ Len(t) >= 2 /\ t[2] \in {BS, ";", ",", "n"}
         THEN <<IF t[2] = "n" THEN LF ELSE t[2]>> \o Unescape(SubSeq(t, 3, Len(t)))
         ELSE <<t[1]>> \o Unescape(Tail(t))

\* ics_escape of every text of the model
EscapeOf == [t \in EscapeTexts |-> ics_escape(t)]

\* C9: unescape(ics_escape(s)) = s for every s over backslash, semicolon,
\* comma, newline and ordinary characters; so no other text has the same
\* escaped form, and the escaped form holds no raw newline
C9_EscapeRoundTrip ==
    pc = "escaped" =>
        /\ Unescape(escaped[1]) = raw
        /\ \A k \in 1..Len(escaped[1]) : escaped[1][k] # LF
        /\ \A t \in EscapeTexts : EscapeOf[t] = escaped[1] => t = raw

\* a text with a backslash before the letter n, then a newline
C9_Witness ==
    /\ pc = "escaped"
    /\ raw = <<BS, "n", LF>>
    /\ escaped = Some(<<BS, BS, "n", BS, "n">>)

-----------------------------------------------------------------------------
(* Reference notions the JSON adapter claims are stated with *)

\* a field that is missing or empty: no such key, null, or the empty string
Lacks(val) == val.t \in {"absent", "null"} \/ (val.t = "str" /\ val.v = <<>>)

\* the identity and the start of an object, by the adapter's key names
IdentityOf(event) == IF iso = "isone" THEN event["event_id"] ELSE event["id"]
StartOf(event) ==
    IF iso = "isone" THEN event["event_start_date_gmt_str"] ELSE event["start"]

\* the loop is about to take an object whose identity or start is missing
TakesIncomplete ==
    /\ pc = "build"
    /\ ev_i <= Len(events)
    /\ Lacks(IdentityOf(events[ev_i])) \/ Lacks(StartOf(events[ev_i]))

\* C8: an object whose identity or start is missing or empty gives no event
\* record and no error, and the loop goes on to the next object
C8_IncompleteObjectsSkipped ==
    [][TakesIncomplete =>
          /\ pc' = "build"
          /\ vevents' = vevents
          /\ ev_i' = ev_i + 1]_vars

-----------------------------------------------------------------------------
(* Reference notions the validator claims are stated with *)

\* the lines of the validated text
FeedLines == RefLines(feed_text, <<>>)

\* the lines that are not blank
NonBlank(lines) == SelectSeq(lines, LAMBDA l : Strip(l) # <<>>)

\* the line declares the named field
Declares(line, field) == Strip(line) # <<>> /\ Strip(line)[1] = field

\* the event blocks of a text: from a begin marker line to the next end
\* marker line, then on from the line after it
RECURSIVE EventBlocksFrom(_, _)
EventBlocksFrom(lines, from) ==
    LET bs == { i \in from..Len(lines) : IsLine(lines[i], BEGIN_VEVENT) }
    IN  IF bs = {} THEN <<>>
        ELSE LET b == CHOOSE i \in bs : \A j \in bs : i <= j
                 es == { i \in (b + 1)..Len(lines) : IsLine(lines[i], END_VEVENT) }
             IN  IF es = {} THEN <<>>
                 ELSE LET e == CHOOSE i \in es : \A j \in es : i <= j
                      IN  <<SubSeq(lines, b, e)>> \o EventBlocksFrom(lines, e + 1)

\* how many of the blocks have no line declaring the field
Lacking(blocks, field) ==
    Cardinality({ k \in 1..Len(blocks) :
                    \A i \in 1..Len(blocks[k]) : ~Declares(blocks[k][i], field) })

NumLines(lines, marker) == Cardinality({ i \in 1..Len(lines) : IsLine(lines[i], marker) })

\* the seven checks on a text, in the order of the issue list: TRUE for a
\* check that succeeds
Checks(lines) ==
    LET nb == NonBlank(lines)
        blocks == EventBlocksFrom(lines, 1)
    IN  << nb # <<>> /\ Strip(nb[1]) = <<"BEGIN:VCALENDAR">>,
           nb # <<>> /\ Strip(nb[Len(nb)]) = Footer,
           \E i \in 1..Len(lines) : Strip(lines[i]) = <<"VERSION:2.0">>,
           \E i \in 1..Len(lines) : Declares(lines[i], "PRODID:"),
           NumLines(lines, BEGIN_VEVENT) = NumLines(lines, END_VEVENT),
           Lacking(blocks, "DTSTART") = 0,
           Lacking(blocks, "SUMMARY:") = 0 >>

\* the issue is the entry of the k-th check
IsEntry(k, issue) ==
    CASE k = 1 -> issue = <<"missing BEGIN:VCALENDAR">>
      [] k = 2 -> issue = <<"missing END:VCALENDAR">>
      [] k = 3 -> issue = <<"missing VERSION:2.0">>
      [] k = 4 -> issue = <<"missing PRODID">>
      [] k = 5 -> issue[1] = "VEVENT mismatch: "
      [] k = 6 -> issue[Len(issue)] = " events missing DTSTART"
      [] k = 7 -> issue[Len(issue)] = " events missing SUMMARY"

HasIssue(v, issue) == \E i \in 1..Len(v.issues) : v.issues[i] = issue

\* a header, one timezone block, two event blocks with DTSTART and SUMMARY,
\* and the footer
TwoEventDocument ==
    << <<"BEGIN:VCALENDAR">>, <<"VERSION:2.0">>, <<"PRODID:", "-//X//EN">> >>
    \o TzPart \o EvFull \o EvFull \o <<Footer>>

BlockLines(blocks) ==
    [k \in 1..Len(blocks) |->
        LET ls == NonBlank(RefLines(blocks[k], <<>>))
        IN  [i \in 1..Len(ls) |-> Strip(ls[i])]]

\* C13: the blocks the validator tests for DTSTART and SUMMARY are, line for
\* line, the blocks extract_vevents returns for the same text, also when a
\* begin marker is repeated before an end marker or a block is not terminated
C13_ValidatorBlocksAreParsedBlocks ==
    pc = "validated" =>
        BlockLines(verdict[1].vevent_blocks) = BlockLines(extract_vevents(feed_text))

-----------------------------------------------------------------------------
(* Terminal states of the pipelines *)

\* C14: a run in which a feed was retrieved and no event survived extraction,
\* filtering and deduplication ends with the success exit status and without
\* a written document
C14_EmptyResultExitsSuccessfully ==
    (pc = "exit" /\ iso \in {"nyiso", "pjm"} /\ fetched # <<>> /\ all_vevents = <<>>)
        => (exit_code = 0 /\ merged = None)

-----------------------------------------------------------------------------
(* The ISO-NE and SPP event records *)

\* the ISO-NE loop is about to build a record from the object at ev_i
BuildsIsone ==
    /\ pc = "build" /\ iso = "isone"
    /\ ev_i <= Len(events)
    /\ Len(vevents') = Len(vevents) + 1

\* where the lines of a record start: after a line ending or at its front
LineStarts(vevent) ==
    { s \in 1..Len(vevent) : /\ vevent[s] \notin {CR, LF}
                             /\ s = 1 \/ vevent[s - 1] \in {CR, LF} }

\* the line of the record that starts at s, up to the next line ending
LineAt(vevent, s) ==
    LET ends == { i \in s..Len(vevent) : vevent[i] \in {CR, LF} }
        e == IF ends = {} THEN Len(vevent)
             ELSE (CHOOSE i \in ends : \A j \in ends : i <= j) - 1
    IN  SubSeq(vevent, s, e)

HasField(vevent, field) == \E s \in LineStarts(vevent) : vevent[s] = field

\* the value of the first line of the record that declares the field
FieldValue(vevent, field) ==
    LET ss == { s \in LineStarts(vevent) : vevent[s] = field }
        s == CHOOSE i \in ss : \A j \in ss : i <= j
    IN  Tail(LineAt(vevent, s))

\* C15: a record built from an ISO-NE object whose cancelled flag is "Y" has
\* the summary "[CANCELLED] " and the title, and its description starts with
\* "** CANCELLED **" followed by backslash and the letter n; the text before
\* escaping starts with the banner and a newline.  With the flag not "Y" the
\* summary is the title and the description does not start with the banner
C15_CancellationMarkers ==
    [][BuildsIsone =>
          LET e == events[ev_i]
              b == vevents'[Len(vevents')]
              given == Get(e, "event_title", Str(<<"ISO-NE Event">>)).v
              summary == FieldValue(b, "SUMMARY:")
              description == FieldValue(b, "DESCRIPTION:")
          IN  /\ HasField(b, "SUMMARY:") /\ HasField(b, "DESCRIPTION:")
              /\ IF e["cancelled_flag"] = Str(<<"Y">>)
                 THEN /\ Unescape(summary) = <<"[CANCELLED] ">> \o given
                      /\ Len(description) >= 3
                      /\ SubSeq(description, 1, 3) = <<"** CANCELLED **", BS, "n">>
                      /\ SubSeq(Unescape(description), 1, 2) = <<"** CANCELLED **", LF>>
                 ELSE /\ Unescape(summary) = given
                      /\ \A k \in 1..Len(b) : b[k] \notin {"[CANCELLED] ", "** CANCELLED **"}]_vars

\* a record was built from an object whose cancelled flag is "Y"
C15_Witness ==
    /\ pc = "build" /\ iso = "isone"
    /\ ev_i > 1 /\ events[ev_i - 1]["cancelled_flag"] = Str(<<"Y">>)
    /\ vevents # <<>>
    /\ \E k \in 1..Len(vevents[Len(vevents)]) :
          vevents[Len(vevents)][k] = "** CANCELLED **"

\* C16: no DTSTART or DTEND value of a record built by the ISO-NE or the SPP
\* adapter holds a "." (fractional seconds are discarded)
C16_NoFractionalSeconds ==
    iso \in {"isone", "spp"} =>
        \A k \in 1..Len(vevents) :
            \A field \in {"DTSTART", "DTEND"} :
                HasField(vevents[k], field) =>
                    \A i \in 1..Len(FieldValue(vevents[k], field)) :
                        FieldValue(vevents[k], field)[i] # "."

-----------------------------------------------------------------------------
(* The timezone block of the NYISO run *)

\* the first terminated VTIMEZONE block of a text: up to the first end marker
\* line that has a begin marker line before it, from the last begin marker
\* line before that one
FirstTimezone(t) ==
    LET bs == { s \in LineStarts(t) : LineAt(t, s) = BEGIN_VTIMEZONE }
        es == { s \in LineStarts(t) : /\ LineAt(t, s) = END_VTIMEZONE
                                      /\ \E b \in bs : b < s }
    IN  IF es = {} THEN None
        ELSE LET e == CHOOSE i \in es : \A j \in es : i <= j
                 b == CHOOSE i \in bs : i < e /\ \A j \in bs : j < e => j <= i
             IN  Some(SubSeq(t, b, e))

\* the document starts with the header and goes on with these parts
StartsWithParts(doc, parts) == StartsWith(doc, Layout(NyisoHeader \o parts))

\* C17: in a NYISO run vtimezone, once set, is never changed; it is set by
\* the fetch of the first feed that has a terminated VTIMEZONE block, to that
\* block, and by nothing else; the written document has the block once, right
\* behind the header and before the first event block, and has no timezone
\* block when no feed gave one
C17_TimezoneSetOnce ==
    [][iso = "nyiso" =>
          /\ vtimezone # None => vtimezone' = vtimezone
          /\ (vtimezone = None /\ feed' = feed + 1)
                => vtimezone' = FirstTimezone(ics_text')
          /\ (vtimezone = None /\ feed' = feed) => vtimezone' = None
          /\ (pc' = "written" /\ vtimezone' # None)
                => /\ StartsWithParts(merged'[1], <<vtimezone'[1], all_vevents'[1]>>)
                   /\ Count(merged'[1], "BEGIN:VTIMEZONE") = 1
          /\ (pc' = "written" /\ vtimezone' = None)
                => /\ StartsWithParts(merged'[1], <<all_vevents'[1]>>)
                   /\ Count(merged'[1], "BEGIN:VTIMEZONE") = 0]_vars

\* the second feed has a terminated timezone block of its own and the block
\* held is the first feed's
C17_Witness ==
    /\ pc = "merge" /\ iso = "nyiso"
    /\ feed = 2
    /\ FirstTimezone(ics_text) = Some(Join(FeedTimezone(2), CRLF))
    /\ vtimezone = Some(Join(FeedTimezone(1), CRLF))

-----------------------------------------------------------------------------
(* Parsing a built document *)

\* C18: parsing the document built from the blocks extract_vevents returned
\* (and, for NYISO, the timezone block extract_vtimezone returned) gives the
\* same blocks in the same order
C18_RoundTrip ==
    pc = "reparsed" => scanned = all_vevents

-----------------------------------------------------------------------------
(* The CAISO and MISO documents *)

\* C19: a document written by the CAISO or the MISO run has as many
\* BEGIN:VEVENT as END:VEVENT lines, whatever the fetched texts were, and the
\* validator reports no VEVENT mismatch for it
C19_BalancedMarkers ==
    (pc = "written" /\ iso \in {"caiso", "miso"}) =>
        LET doc == merged[1]
            v == validate(doc)
        IN  /\ Count(doc, "BEGIN:VEVENT") = Count(doc, "END:VEVENT")
            /\ \A i \in 1..Len(v.issues) : v.issues[i][1] # "VEVENT mismatch: "

-----------------------------------------------------------------------------
(* The date window *)

\* year, month and day of a date written YYYYMMDD (PJM) or YYYY-MM-DD (CAISO)
DateParts(d) ==
    IF Len(d) = 8
    THEN <<Num(SubSeq(d, 1, 4)), Num(SubSeq(d, 5, 6)), Num(SubSeq(d, 7, 8))>>
    ELSE <<Num(SubSeq(d, 1, 4)), Num(SubSeq(d, 6, 7)), Num(SubSeq(d, 9, 10))>>

\* the months from year 0 to the month of a date
MonthCount(p) == p[1] * 12 + (p[2] - 1)

\* the days are in calendar order
Earlier(p, q) ==
    \/ p[1] < q[1]
    \/ p[1] = q[1] /\ p[2] < q[2]
    \/ p[1] = q[1] /\ p[2] = q[2] /\ p[3] < q[3]

\* C20: for today in month m of year y and k months ahead, start is day 1 of
\* month m of year y and end is day 1 of the month k months later: its month
\* is in 1..12, its year is y + floor((m - 1 + k) / 12); start is not after
\* end, and they are equal only for k = 0
C20_DateRangeArithmetic ==
    pc = "windowed" =>
        LET y == today[1]
            m == today[2]
            k == months
            start == DateParts(window[1])
            end == DateParts(window[2])
        IN  /\ Len(window[1]) = (IF iso = "pjm" THEN 8 ELSE 10)
            /\ Len(window[2]) = Len(window[1])
            /\ start = <<y, m, 1>>
            /\ end[3] = 1
            /\ end[2] \in 1..12
            /\ end[1] = y + ((m - 1 + k) \div 12)
            /\ MonthCount(end) = MonthCount(start) + k
            /\ start = end \/ Earlier(start, end)
            /\ start = end <=> k = 0
            /\ window[1] = window[2] <=> k = 0

\* from November 2026, fourteen months ahead: the window ends on 1 January 2028
C20_Witness ==
    /\ pc = "windowed" /\ iso = "pjm"
    /\ today = <<2026, 11>> /\ months = 14
    /\ window = << <<"2", "0", "2", "6", "1", "1", "0", "1">>,
                   <<"2", "0", "2", "8", "0", "1", "0", "1">> >>

=============================================================================
